---- MODULE Spec2Model ----
(***************************************************************************)
(* VeriDock converter: PDF sources are turned into SVG "containers" that   *)
(* embed the PDF, a thumbnail grid and OCR data.  The model has two        *)
(* layers.  The text layer gives the container as a sequence of tokens     *)
(* and the regex/str operations of the code as operators on it.  The       *)
(* process layer gives the daemon (observer thread + main thread) and the  *)
(* command-line tools as actions over the files on disk.                   *)
(*                                                                         *)
(* A container text is a sequence of STRING tokens.  A token is either a   *)
(* piece of markup of the template (kept whole, with the inert whitespace  *)
(* that surrounds it), one character of base64 data, or one word of        *)
(* user-controlled text (file name, PDF title, OCR text).  User text may   *)
(* itself contain markup tokens: nothing in the code escapes it.           *)
(***************************************************************************)
EXTENDS Integers, Sequences, FiniteSets, TLC

(***************************************************************************)
(* Bounds of the model.                                                    *)
(***************************************************************************)
\* number of clock readings (datetime.now()) a behaviour may make
MaxClock == 3
\* number of file creations / rewrites the environment may make
MaxEnv == 2
\* number of notifications that may wait in the observer's queue
MaxQueue == 1

(***************************************************************************)
(* Program constants.                                                      *)
(***************************************************************************)
\* ocr_processor.py:105  words with confidence <= 30 are dropped
MinConfidence == 30
\* pdf_to_svg.py:81 and pdf_to_png.py:72  at most 4 columns in the grid
MaxCols == 4
\* svg_operations.py:291  a PDF payload below 100 bytes draws a warning
MinPdfSize == 100
\* ocr_processor.py:238  only words longer than 3 characters are counted
MinWordLen == 3
\* daemon_service.py:74  wait_for_file_complete gives up after 30 seconds,
\* counted in the half seconds of its polling sleep (line 87)
WaitTimeout == 60
\* daemon_service.py:84  one more second of sleep once the size is stable
SettleDelay == 2

(***************************************************************************)
(* Sequence helpers.                                                       *)
(***************************************************************************)
Range(s) == {s[i] : i \in DOMAIN s}

\* s[a..b], empty when a > b
Slice(s, a, b) == IF a > b THEN <<>> ELSE SubSeq(s, a, b)

RECURSIVE Flatten(_)
Flatten(ss) == IF ss = <<>> THEN <<>> ELSE Head(ss) \o Flatten(Tail(ss))

RECURSIVE SumSeq(_)
SumSeq(s) == IF s = <<>> THEN 0 ELSE Head(s) + SumSeq(Tail(s))

\* str.find(tok): index of the first occurrence of tok at or after from, 0 if none
FindTok(text, tok, from) ==
    LET hits == {i \in from..Len(text) : text[i] = tok}
    IN  IF hits = {} THEN 0 ELSE CHOOSE i \in hits : \A j \in hits : i <= j

\* `tok in text`
Contains(text, tok) == \E i \in DOMAIN text : text[i] = tok

(***************************************************************************)
(* base64 (base64.b64encode / base64.b64decode), computed on bytes 0..255. *)
(***************************************************************************)
B64Alphabet ==
    << "A","B","C","D","E","F","G","H","I","J","K","L","M","N","O","P",
       "Q","R","S","T","U","V","W","X","Y","Z","a","b","c","d","e","f",
       "g","h","i","j","k","l","m","n","o","p","q","r","s","t","u","v",
       "w","x","y","z","0","1","2","3","4","5","6","7","8","9","+","/" >>

B64Pad == "="

B64Chars == Range(B64Alphabet)

B64Char(n) == B64Alphabet[n + 1]

B64Val(ch) == (CHOOSE i \in DOMAIN B64Alphabet : B64Alphabet[i] = ch) - 1

RECURSIVE b64encode(_)
b64encode(bs) ==
    IF Len(bs) = 0 THEN <<>>
    ELSE IF Len(bs) = 1 THEN
        << B64Char(bs[1] \div 4), B64Char((bs[1] % 4) * 16), B64Pad, B64Pad >>
    ELSE IF Len(bs) = 2 THEN
        << B64Char(bs[1] \div 4),
           B64Char((bs[1] % 4) * 16 + bs[2] \div 16),
           B64Char((bs[2] % 16) * 4), B64Pad >>
    ELSE
        << B64Char(bs[1] \div 4),
           B64Char((bs[1] % 4) * 16 + bs[2] \div 16),
           B64Char((bs[2] % 16) * 4 + bs[3] \div 64),
           B64Char(bs[3] % 64) >> \o b64encode(SubSeq(bs, 4, Len(bs)))

\* The decoder's answer for input that is not a whole padded encoding
\* (binascii.Error, which both callers catch).
DecodeError == << -1 >>

RECURSIVE b64decode(_)
b64decode(cs) ==
    IF Len(cs) = 0 THEN <<>>
    ELSE IF Len(cs) < 4 THEN DecodeError
    ELSE IF cs[1] = B64Pad \/ cs[2] = B64Pad THEN DecodeError
    ELSE IF cs[3] = B64Pad THEN
        IF cs[4] = B64Pad /\ Len(cs) = 4
        THEN << B64Val(cs[1]) * 4 + B64Val(cs[2]) \div 16 >>
        ELSE DecodeError
    ELSE IF cs[4] = B64Pad THEN
        IF Len(cs) = 4
        THEN << B64Val(cs[1]) * 4 + B64Val(cs[2]) \div 16,
                (B64Val(cs[2]) % 16) * 16 + B64Val(cs[3]) \div 4 >>
        ELSE DecodeError
    ELSE
        LET rest == b64decode(SubSeq(cs, 5, Len(cs)))
        IN  IF rest = DecodeError THEN DecodeError
            ELSE << B64Val(cs[1]) * 4 + B64Val(cs[2]) \div 16,
                    (B64Val(cs[2]) % 16) * 16 + B64Val(cs[3]) \div 4,
                    (B64Val(cs[3]) % 4) * 64 + B64Val(cs[4]) >> \o rest

(***************************************************************************)
(* Tokens of the container text.                                           *)
(***************************************************************************)
\* the element names the code reads or writes
Keys == { "filename", "creation_time", "pages", "pdf_metadata",
          "ocr_status", "ocr_data", "thumbnail_metadata" }

OpenTag ==
    [ filename           |-> "<veridock:filename>",
      creation_time      |-> "<veridock:creation_time>",
      pages              |-> "<veridock:pages>",
      pdf_metadata       |-> "<veridock:pdf_metadata>",
      ocr_status         |-> "<veridock:ocr_status>",
      ocr_data           |-> "<veridock:ocr_data>",
      thumbnail_metadata |-> "<veridock:thumbnail_metadata>" ]

CloseTag ==
    [ filename           |-> "</veridock:filename>",
      creation_time      |-> "</veridock:creation_time>",
      pages              |-> "</veridock:pages>",
      pdf_metadata       |-> "</veridock:pdf_metadata>",
      ocr_status         |-> "</veridock:ocr_status>",
      ocr_data           |-> "</veridock:ocr_data>",
      thumbnail_metadata |-> "</veridock:thumbnail_metadata>" ]

Markup ==
    [ XmlDecl      |-> "<?xml version=\"1.0\" encoding=\"UTF-8\"?>",
      SvgOpen      |-> "<svg xmlns=\"http://www.w3.org/2000/svg\"",
      NsDecl       |-> "xmlns:veridock=\"http://veridock.com/ns\"",
      SvgOpenEnd   |-> "width=\"800\" height=\"600\">",
      MetaOpen     |-> "<metadata>",
      DocOpen      |-> "<veridock:document>",
      DocClose     |-> "</veridock:document>",
      MetaClose    |-> "</metadata>",
      DefsOpen     |-> "<defs>",
      PdfDataOpen  |-> "<veridock:pdf_data id=\"original_pdf\">",
      PdfDataClose |-> "</veridock:pdf_data>",
      GridOpen     |-> "<veridock:thumbnail_grid id=\"thumbnail_grid\">",
      GridClose    |-> "</veridock:thumbnail_grid>",
      DefsClose    |-> "</defs>",
      PdfUri       |-> "data:application/pdf;base64,",
      PngUri       |-> "data:image/png;base64,",
      \* the header of the interface, around the file name and the page count
      UiHeadOpen   |-> "<rect/><text>VeriDock Document</text><text>",
      UiBullet     |-> " * ",
      UiStron      |-> " stron * ",
      UiHeadClose  |-> "</text><g id=\"thumbnail_display\">",
      \* the <image> tag as the template writes it (attributes on two lines) and
      \* as update_svg_thumbnails writes it (on one line)
      ImgOpenTpl   |-> "<image x=\"30\" y=\"150\" width=\"340\" height=\"300\" (LF) href=\"",
      ImgOpenUpd   |-> "<image x=\"30\" y=\"150\" width=\"340\" height=\"300\" href=\"",
      ImgCloseTpl  |-> "\" (LF) style=\"object-fit: contain\"/>",
      ImgCloseUpd  |-> "\" style=\"object-fit: contain\"/>",
      PanelOpen    |-> "</g><g id=\"control_panel\">",
      StatusWait   |-> "Status OCR: <tspan fill=\"#f39c12\">Oczekuje</tspan>",
      StatusDone   |-> "Status OCR: <tspan fill=\"#27ae60\">Zakonczono</tspan>",
      UpdatedLabel |-> "</text><text>Ostatnia aktualizacja: ",
      ScriptOpen   |-> "</text></g><script>a.download = '",
      ScriptClose  |-> "_ocr.txt'</script>",
      SvgClose     |-> "</svg>",
      \* whitespace next to data: newline and 6 or 4 blanks, and 6 blanks
      WsNl6        |-> "(LF)      ",
      WsNl4        |-> "(LF)    ",
      Ws6          |-> "      ",
      \* characters of user text that JSON or a regex template rewrite
      LF           |-> "(LF)",
      EscLF        |-> "(backslash)n",
      Quote        |-> "(quote)",
      EscQuote     |-> "(backslash)(quote)" ]

\* The tokens that contain the character "<".
MarkupTokens ==
    { OpenTag[k] : k \in Keys } \cup { CloseTag[k] : k \in Keys } \cup
    { Markup.XmlDecl, Markup.SvgOpen, Markup.MetaOpen, Markup.DocOpen, Markup.DocClose, Markup.MetaClose, Markup.DefsOpen,
      Markup.PdfDataOpen, Markup.PdfDataClose, Markup.GridOpen, Markup.GridClose, Markup.DefsClose, Markup.UiHeadOpen,
      Markup.UiHeadClose, Markup.ImgOpenTpl, Markup.ImgOpenUpd, Markup.PanelOpen, Markup.StatusWait, Markup.StatusDone,
      Markup.UpdatedLabel, Markup.ScriptOpen, Markup.ScriptClose, Markup.SvgClose }

HasLt(tok) == tok \in MarkupTokens

\* The tokens that contain the character ">" (for the class [^>]).
HasGt(tok) == tok \in MarkupTokens \cup { Markup.SvgOpenEnd, Markup.ImgCloseTpl, Markup.ImgCloseUpd }

\* Pieces of the JSON texts the code embeds (json.dumps output between the
\* values).  All of them contain a double quote.
Json ==
    [ JMetaTitle  |-> "{\"title\": \"",
      JMetaPages  |-> "\", \"author\": \"\", \"creator\": \"\", \"producer\": \"\", \"creation_date\": \"\", \"modification_date\": \"\", \"pages\": ",
      JMetaNoInfo |-> "{\"pages\": ",
      JObjClose   |-> "}",
      JOcrDate    |-> "{\"processing_date\": \"",
      JOcrTotal   |-> "\", \"total_pages\": ",
      JOcrLang    |-> ", \"languages\": \"pol+eng\", \"pages\": [",
      JOcrSummary |-> "], \"summary\": ",
      JPageNo     |-> "{\"page\": ",
      JPageText   |-> ", \"text\": \"",
      JPageWords  |-> "\", \"words\": [",
      JPageCount  |-> "], \"word_count\": ",
      JPageAvg    |-> ", \"confidence_avg\": ",
      JPageStamp  |-> ", \"timestamp\": \"",
      JStrClose   |-> "\"}",
      JWordText   |-> "{\"text\": \"",
      JWordConf   |-> "\", \"confidence\": ",
      JWordBox    |-> ", \"bbox\": {\"x\": 0, \"y\": 0, \"width\": 0, \"height\": 0}}",
      JSumPages   |-> "{\"total_pages\": ",
      JSumWords   |-> ", \"total_words\": ",
      JSumChars   |-> ", \"total_characters\": ",
      JSumAvg     |-> ", \"average_confidence\": ",
      JSumText    |-> ", \"pages_with_text\": ",
      JSumTop     |-> ", \"top_words\": [",
      JTopOpen    |-> "[\"",
      JTopCount   |-> "\", ",
      JTopClose   |-> "]",
      JSumLang    |-> "], \"languages_detected\": \"pol+eng\"}",
      JThTotal    |-> "{\"total_pages\": (matrix) ",
      JThCols     |-> ", \"matrix_cols\": ",
      JThRows     |-> ", \"matrix_rows\": ",
      JThSize     |-> ", \"thumbnail_size\": [150, 200], \"page_positions\": [",
      JThPage     |-> "{\"page\": (tile) ",
      JThX        |-> ", \"x\": ",
      JThY        |-> ", \"y\": ",
      JThWH       |-> ", \"width\": 150, \"height\": 200}",
      JThClose    |-> "]}",
      JComma      |-> ", " ]

JsonTokens ==
    { Json.JMetaTitle, Json.JMetaPages, Json.JMetaNoInfo, Json.JOcrDate, Json.JOcrTotal, Json.JOcrLang,
      Json.JOcrSummary, Json.JPageNo, Json.JPageText, Json.JPageWords, Json.JPageCount, Json.JPageAvg,
      Json.JPageStamp, Json.JStrClose, Json.JWordText, Json.JWordConf, Json.JWordBox, Json.JSumPages,
      Json.JSumWords, Json.JSumChars, Json.JSumAvg, Json.JSumText, Json.JSumTop, Json.JTopOpen, Json.JTopCount,
      Json.JSumLang, Json.JThTotal, Json.JThCols, Json.JThRows, Json.JThSize, Json.JThPage, Json.JThX, Json.JThY,
      Json.JThWH }

\* The tokens that contain a double quote (for the class [^"]).
HasQuote(tok) ==
    tok \in { Markup.XmlDecl, Markup.SvgOpen, Markup.NsDecl, Markup.SvgOpenEnd, Markup.PdfDataOpen, Markup.GridOpen,
              Markup.UiHeadClose, Markup.ImgOpenTpl, Markup.ImgOpenUpd, Markup.ImgCloseTpl, Markup.ImgCloseUpd,
              Markup.PanelOpen, Markup.StatusWait, Markup.StatusDone, Markup.Quote, Markup.EscQuote }
    \/ tok \in JsonTokens

(***************************************************************************)
(* The source PDFs.  A content is an index of PdfTable; what the external  *)
(* capabilities (PyPDF2, pdf2image, tesseract) answer for a PDF is a       *)
(* function of its content.                                                *)
(*   bytes   the bytes of the file                                         *)
(*   pages   the number of pages the rasterizer produces                   *)
(*   raster  whether pdf2image can rasterize it                            *)
(*   maxdpi  the highest resolution at which its pages can be loaded       *)
(*   info    whether PyPDF2 finds a document information dictionary        *)
(*   title   its /Title                                                    *)
(***************************************************************************)
PdfTable ==
    << \* 1: a regular 3-page document
       [ bytes |-> <<37, 80, 68, 70>>, pages |-> 3, raster |-> TRUE, maxdpi |-> 300,
         info |-> TRUE, title |-> <<"Report">> ],
       \* 2: a 3-page document without information dictionary
       [ bytes |-> <<37, 80, 68>>, pages |-> 3, raster |-> TRUE, maxdpi |-> 300,
         info |-> FALSE, title |-> <<>> ],
       \* 3: a damaged file that cannot be rasterized
       [ bytes |-> <<37, 80>>, pages |-> 0, raster |-> FALSE, maxdpi |-> 0,
         info |-> FALSE, title |-> <<>> ],
       \* 4: a 1-page document whose title is itself a PDF data URI
       [ bytes |-> <<37, 80, 68, 70, 45>>, pages |-> 1, raster |-> TRUE, maxdpi |-> 300,
         info |-> TRUE, title |-> <<Markup.PdfUri, "Q", "U", "J", "D">> ],
       \* 5: a zero-length file
       [ bytes |-> <<>>, pages |-> 0, raster |-> FALSE, maxdpi |-> 0,
         info |-> FALSE, title |-> <<>> ],
       \* 6: a 1-page document whose title is the text <veridock:ocr_data>
       [ bytes |-> <<37, 80, 68, 70, 49>>, pages |-> 1, raster |-> TRUE, maxdpi |-> 300,
         info |-> TRUE, title |-> << OpenTag.ocr_data >> ],
       \* 7: a 1-page large-format sheet: its page image passes the size
       \*    limit of the imaging library at 150 dpi only
       [ bytes |-> <<37, 80, 68, 70, 65, 48>>, pages |-> 1, raster |-> TRUE, maxdpi |-> 150,
         info |-> TRUE, title |-> <<"Plan">> ],
       \* 8: a regular 6-page document: its thumbnails fill two rows
       [ bytes |-> <<37, 80, 68, 70, 54>>, pages |-> 6, raster |-> TRUE, maxdpi |-> 300,
         info |-> TRUE, title |-> <<"Book">> ] >>

Contents == DOMAIN PdfTable

\* no file at a path
NoFile == 0

(***************************************************************************)
(* External capabilities, as functions of the PDF content.                 *)
(***************************************************************************)
\* pdf_to_svg.py:27, pdf_to_png.py:26, ocr_processor.py:29
SvgDpi == 150
PngDpi == 200
OcrDpi == 300
\* pdf_to_png.py:27  thumbnail_size of the thumbnail matrix
TileW == 150
TileH == 200

\* pdf2image.convert_from_path: the page numbers rasterized, <<>> when the
\* rasterizer raises (every caller turns the exception into "no images").
convert_from_path(c, dpi) ==
    IF PdfTable[c].raster /\ dpi <= PdfTable[c].maxdpi
    THEN [i \in 1..PdfTable[c].pages |-> i] ELSE <<>>

\* The PNG bytes of the grid image composed from the pages of c at a dpi.
GridPng(c, dpi) == << 137, c, dpi \div 50 >>

\* pytesseract.image_to_string and image_to_data for page i: the page text,
\* the length of the text, and the recognized boxes (text, confidence, and
\* number of characters; confidence -1 marks a box that is not a word).
OcrRaw(c, i) ==
    IF i = 1 THEN
        [ text  |-> << "Invoice", Markup.LF, "total" >>, chars |-> 13,
          words |-> << [text |-> "Invoice", conf |-> 96, len |-> 7],
                       [text |-> "",        conf |-> -1, len |-> 0],
                       [text |-> "of",      conf |-> 30, len |-> 2],
                       [text |-> "total",   conf |-> 31, len |-> 5] >> ]
    ELSE IF i = 2 THEN
        [ text  |-> << "total" >>, chars |-> 5,
          words |-> << [text |-> "total", conf |-> 88, len |-> 5] >> ]
    ELSE
        [ text |-> <<>>, chars |-> 0, words |-> <<>> ]

(***************************************************************************)
(* Clock.  A reading of datetime.now() is the counter value; isoformat()   *)
(* and its prefixes [:10] (the day) and [:16] (the minute) are tokens.     *)
(***************************************************************************)
IsoTokens == << "2026-01-01T10:00:00", "2026-01-01T10:00:30",
                "2026-01-01T10:01:00", "2026-01-01T10:01:30",
                "2026-01-01T10:02:00", "2026-01-01T10:02:30" >>
MinuteTokens == << "2026-01-01T10:00", "2026-01-01T10:01", "2026-01-01T10:02" >>

isoformat(t) == IsoTokens[(t % Len(IsoTokens)) + 1]
Minute16(t)  == MinuteTokens[((t % Len(IsoTokens)) \div 2) + 1]
Date10(t)    == "2026-01-01"

(***************************************************************************)
(* json.dumps and the replacement template of re.sub.                      *)
(***************************************************************************)
\* json.dumps of a string: the quote and the newline are escaped, the
\* characters < > : ; , / are not.
JsonEscape(text) ==
    [ i \in DOMAIN text |->
        IF text[i] = Markup.LF THEN Markup.EscLF
        ELSE IF text[i] = Markup.Quote THEN Markup.EscQuote
        ELSE text[i] ]

\* re.sub reads its replacement as a template: backslash-n becomes a
\* newline, backslash-quote is left alone.
ExpandTemplate(repl) ==
    [ i \in DOMAIN repl |-> IF repl[i] = Markup.EscLF THEN Markup.LF ELSE repl[i] ]

(***************************************************************************)
(* Regular-expression operations on token sequences.                       *)
(***************************************************************************)
\* index of the first token at or after from that contains "<", or 0
NextLt(text, from) ==
    LET hits == {i \in from..Len(text) : HasLt(text[i])}
    IN  IF hits = {} THEN 0 ELSE CHOOSE i \in hits : \A j \in hits : i <= j

\* end index of a match of  open [^<]* close  that starts at i, or 0
MatchElemAt(text, i, open, close) ==
    IF text[i] # open THEN 0
    ELSE LET j == NextLt(text, i + 1)
         IN  IF j # 0 /\ text[j] = close THEN j ELSE 0

\* end index of a match of  open .*? close  (DOTALL) that starts at i, or 0
MatchLazyAt(text, i, open, close) ==
    IF text[i] # open THEN 0 ELSE FindTok(text, close, i + 1)

\* the least element of a non-empty set of indices
MinOf(S) == CHOOSE k \in S : \A j \in S : k <= j

\* re.sub(open [^<]* close, repl, text): every match is replaced, leftmost
\* first, the search going on after the end of each match
RECURSIVE SubElemFrom(_, _, _, _, _)
SubElemFrom(text, i, open, close, repl) ==
    LET starts == {k \in i..Len(text) : MatchElemAt(text, k, open, close) # 0}
    IN  IF starts = {} THEN Slice(text, i, Len(text))
        ELSE Slice(text, i, MinOf(starts) - 1) \o repl
             \o SubElemFrom(text, MatchElemAt(text, MinOf(starts), open, close) + 1,
                            open, close, repl)

re_sub_elem(text, open, close, repl) ==
    SubElemFrom(text, 1, open, close, ExpandTemplate(repl))

\* re.sub(open .*? close, repl, text, flags=DOTALL)
RECURSIVE SubLazyFrom(_, _, _, _, _)
SubLazyFrom(text, i, open, close, repl) ==
    LET starts == {k \in i..Len(text) : MatchLazyAt(text, k, open, close) # 0}
    IN  IF starts = {} THEN Slice(text, i, Len(text))
        ELSE Slice(text, i, MinOf(starts) - 1) \o repl
             \o SubLazyFrom(text, MatchLazyAt(text, MinOf(starts), open, close) + 1,
                            open, close, repl)

re_sub_lazy(text, open, close, repl) ==
    SubLazyFrom(text, 1, open, close, ExpandTemplate(repl))

\* re.search(open ([^<]+) close): the group of the first match, <<>> if none
re_search_elem(text, open, close) ==
    LET hits == {i \in DOMAIN text :
                    MatchElemAt(text, i, open, close) > i + 1}
    IN  IF hits = {} THEN <<>>
        ELSE LET i == CHOOSE k \in hits : \A j \in hits : k <= j
             IN  SubSeq(text, i + 1, MatchElemAt(text, i, open, close) - 1)

\* re.search(open (.*?) close, DOTALL): whether it matches, and its group
re_search_lazy(text, open, close) ==
    LET hits == {i \in DOMAIN text : MatchLazyAt(text, i, open, close) # 0}
    IN  IF hits = {} THEN [found |-> FALSE, group |-> <<>>]
        ELSE LET i == CHOOSE k \in hits : \A j \in hits : k <= j
             IN  [found |-> TRUE,
                  group |-> Slice(text, i + 1,
                                  MatchLazyAt(text, i, open, close) - 1)]

\* length of the longest run of base64 characters that starts at i
RECURSIVE B64Run(_, _)
B64Run(text, i) ==
    IF i <= Len(text) /\ text[i] \in B64Chars \cup {B64Pad}
    THEN 1 + B64Run(text, i + 1) ELSE 0

\* re.search(r'data:application/pdf;base64,([A-Za-z0-9+/=]+)'): the group of
\* the first match, <<>> if there is none
re_search_pdf(text) ==
    LET hits == {i \in DOMAIN text : text[i] = Markup.PdfUri /\ B64Run(text, i + 1) > 0}
    IN  IF hits = {} THEN <<>>
        ELSE LET i == CHOOSE k \in hits : \A j \in hits : k <= j
             IN  SubSeq(text, i + 1, i + B64Run(text, i + 1))

(***************************************************************************)
(* Convert: pdf_to_svg.py                                                  *)
(***************************************************************************)
\* A result that Python code tests with `if not x` (None, "", [], b"").
Falsy == <<>>

\* get_pdf_metadata: the dict read by PyPDF2, {'pages': 0} when that raises
get_pdf_metadata(c) ==
    IF PdfTable[c].info
    THEN [ info |-> TRUE, title |-> PdfTable[c].title, pages |-> PdfTable[c].pages ]
    ELSE [ info |-> FALSE, title |-> <<>>, pages |-> 0 ]

\* json.dumps(metadata)
json_dumps_metadata(md) ==
    IF md.info
    THEN << Json.JMetaTitle >> \o JsonEscape(md.title)
            \o << Json.JMetaPages, ToString(md.pages), Json.JObjClose >>
    ELSE << Json.JMetaNoInfo, ToString(md.pages), Json.JObjClose >>

\* pdf_to_base64
pdf_to_base64(c) == b64encode(PdfTable[c].bytes)

\* generate_thumbnail_grid: None when there are no images
generate_thumbnail_grid(c) ==
    IF convert_from_path(c, SvgDpi) = <<>> THEN Falsy
    ELSE b64encode(GridPng(c, SvgDpi))

\* os.path.basename of a source path (sources lie directly in a root)
basename(pdf_path) == << pdf_path >>

\* create_svg_template, with the clock reading now
create_svg_template(pdf_path, pdf_base64, thumbnail_grid, metadata, now) ==
    << Markup.XmlDecl, Markup.SvgOpen, Markup.NsDecl, Markup.SvgOpenEnd, Markup.MetaOpen, Markup.DocOpen >>
    \o << OpenTag.filename >> \o basename(pdf_path) \o << CloseTag.filename >>
    \o << OpenTag.creation_time, isoformat(now), CloseTag.creation_time >>
    \o << OpenTag.pages, ToString(metadata.pages), CloseTag.pages >>
    \o << OpenTag.pdf_metadata >> \o json_dumps_metadata(metadata)
    \o << CloseTag.pdf_metadata >>
    \o << OpenTag.ocr_status, "pending", CloseTag.ocr_status >>
    \o << OpenTag.ocr_data, CloseTag.ocr_data >>
    \o << Markup.DocClose, Markup.MetaClose, Markup.DefsOpen >>
    \o << Markup.PdfDataOpen, Markup.WsNl6, Markup.PdfUri >> \o pdf_base64 \o << Markup.WsNl4, Markup.PdfDataClose >>
    \o << Markup.GridOpen, Markup.WsNl6, Markup.PngUri >> \o thumbnail_grid \o << Markup.WsNl4, Markup.GridClose >>
    \o << Markup.DefsClose, Markup.UiHeadOpen >> \o basename(pdf_path)
    \o << Markup.UiBullet, ToString(metadata.pages), Markup.UiStron, Date10(now), Markup.UiHeadClose >>
    \o << Markup.ImgOpenTpl, Markup.PngUri >> \o thumbnail_grid \o << Markup.ImgCloseTpl >>
    \o << Markup.PanelOpen, Markup.StatusWait, Markup.UpdatedLabel, Minute16(now), Markup.ScriptOpen >>
    \o basename(pdf_path) \o << Markup.ScriptClose, Markup.SvgClose >>

\* convert writing the template without testing the thumbnail grid
convert_unchecked(pdf_path, c, now) ==
    IF c = NoFile THEN Falsy
    ELSE IF pdf_to_base64(c) = Falsy THEN Falsy
    ELSE create_svg_template(pdf_path, pdf_to_base64(c),
                             generate_thumbnail_grid(c), get_pdf_metadata(c), now)

\* convert, for a source with content c: the container text it writes, or
\* Falsy when it returns None without writing
convert(pdf_path, c, now) ==
    IF c = NoFile THEN Falsy
    ELSE IF pdf_to_base64(c) = Falsy THEN Falsy
    ELSE IF generate_thumbnail_grid(c) = Falsy THEN Falsy
    ELSE create_svg_template(pdf_path, pdf_to_base64(c),
                             generate_thumbnail_grid(c), get_pdf_metadata(c), now)

(***************************************************************************)
(* Reading a container: svg_operations.py                                  *)
(***************************************************************************)
\* extract_pdf_from_svg (also OCRProcessor.extract_pdf_from_svg): the bytes
\* decoded from the first PDF data URI; DecodeError stands for None
extract_pdf_from_svg(text) ==
    IF re_search_pdf(text) = <<>> THEN DecodeError
    ELSE b64decode(re_search_pdf(text))

\* get_svg_metadata: the value of one of its four fields, <<>> if absent
get_svg_metadata(text, key) == re_search_elem(text, OpenTag[key], CloseTag[key])

(***************************************************************************)
(* Thumbnail: pdf_to_png.py                                                *)
(***************************************************************************)
Min(a, b) == IF a < b THEN a ELSE b

\* the entry with the tile placed by the number of rows instead
page_position_by_rows(i, cols) ==
    [ page |-> i + 1, x |-> (i \div cols) * TileW, y |-> (i % cols) * TileH,
      width |-> TileW, height |-> TileH ]

\* every page pasted into the first cell of the grid
page_position_stacked(i, cols) ==
    [ page |-> i + 1, x |-> 0, y |-> 0, width |-> TileW, height |-> TileH ]

\* the page_positions entry of page i + 1 in a grid of cols columns
page_position(i, cols) ==
    [ page |-> i + 1, x |-> (i % cols) * TileW, y |-> (i \div cols) * TileH,
      width |-> TileW, height |-> TileH ]

\* create_thumbnail_matrix: Falsy (None) without images, else the base64 of
\* the matrix and its metadata
create_thumbnail_matrix(c) ==
    IF c = NoFile \/ convert_from_path(c, PngDpi) = <<>> THEN Falsy
    ELSE LET n    == Len(convert_from_path(c, PngDpi))
             cols == Min(MaxCols, n)
             rows == (n + cols - 1) \div cols
         IN  << [ matrix_base64 |-> b64encode(GridPng(c, PngDpi)),
                  metadata |-> [ total_pages |-> n, matrix_cols |-> cols,
                                 matrix_rows |-> rows,
                                 page_positions |->
                                     [ k \in 1..n |-> page_position(k - 1, cols) ] ] ] >>

\* json.dumps(metadata, indent=2) of the matrix metadata
json_dumps_matrix(md) ==
    << Json.JThTotal, ToString(md.total_pages), Json.JThCols, ToString(md.matrix_cols),
       Json.JThRows, ToString(md.matrix_rows), Json.JThSize >>
    \o Flatten([ k \in DOMAIN md.page_positions |->
                   << Json.JThPage, ToString(md.page_positions[k].page),
                      Json.JThX, ToString(md.page_positions[k].x),
                      Json.JThY, ToString(md.page_positions[k].y), Json.JThWH >> ])
    \o << Json.JThClose >>

\* end index of a match of  <image[^>]*href="data:image/png;base64,[^"]*"[^>]*>
\* that starts at i, or 0
MatchImageAt(text, i) ==
    IF ~(text[i] \in {Markup.ImgOpenTpl, Markup.ImgOpenUpd}) \/ i + 1 > Len(text) THEN 0
    ELSE IF text[i + 1] # Markup.PngUri THEN 0
    ELSE LET hits == {j \in (i + 2)..Len(text) : HasQuote(text[j])}
             j    == IF hits = {} THEN 0
                     ELSE CHOOSE k \in hits : \A m \in hits : k <= m
         IN  IF j # 0 /\ text[j] \in {Markup.ImgCloseTpl, Markup.ImgCloseUpd} THEN j ELSE 0

RECURSIVE SubImageFrom(_, _, _)
SubImageFrom(text, i, repl) ==
    LET starts == {k \in i..Len(text) : MatchImageAt(text, k) # 0}
    IN  IF starts = {} THEN Slice(text, i, Len(text))
        ELSE Slice(text, i, MinOf(starts) - 1) \o repl
             \o SubImageFrom(text, MatchImageAt(text, MinOf(starts)) + 1, repl)

\* an insertion that lands behind the closing marker of the document block
InsertBehindDocClose(text, ins) ==
    LET pos == FindTok(text, Markup.DocClose, 1)
    IN  IF pos = 0 THEN text
        ELSE Slice(text, 1, pos) \o ins \o Slice(text, pos + 1, Len(text))

\* text with ins put in front of the first DocClose (str.find and slicing);
\* text itself when there is no DocClose
InsertBeforeDocClose(text, ins) ==
    LET pos == FindTok(text, Markup.DocClose, 1)
    IN  IF pos = 0 THEN text
        ELSE Slice(text, 1, pos - 1) \o ins \o SubSeq(text, pos, Len(text))

\* update_svg_thumbnails: the text it writes back
update_svg_thumbnails(text, matrix_base64, metadata) ==
    LET t1 == re_sub_elem(text, Markup.GridOpen, Markup.GridClose,
                          << Markup.GridOpen, Markup.PngUri >> \o matrix_base64 \o << Markup.GridClose >>)
        metadata_content ==
            << OpenTag.thumbnail_metadata >> \o json_dumps_matrix(metadata)
            \o << CloseTag.thumbnail_metadata >>
        t2 == IF Contains(t1, OpenTag.thumbnail_metadata)
              THEN re_sub_lazy(t1, OpenTag.thumbnail_metadata,
                               CloseTag.thumbnail_metadata, metadata_content)
              ELSE InsertBeforeDocClose(t1, << Markup.Ws6 >> \o metadata_content \o << Markup.WsNl4 >>)
    IN  SubImageFrom(t2, 1, ExpandTemplate(<< Markup.ImgOpenUpd, Markup.PngUri >> \o matrix_base64
                                           \o << Markup.ImgCloseUpd >>))

\* generate_thumbnails(pdf_path, svg_path): the container text afterwards.
\* c is the content of the source when the matrix is made, text the
\* container (Falsy when the file does not exist).
generate_thumbnails(c, text) ==
    IF create_thumbnail_matrix(c) = Falsy \/ text = Falsy THEN text
    ELSE update_svg_thumbnails(text, create_thumbnail_matrix(c)[1].matrix_base64,
                               create_thumbnail_matrix(c)[1].metadata)

(***************************************************************************)
(* OCR: ocr_processor.py                                                   *)
(***************************************************************************)
RECURSIVE SelectWords_inclusive(_)
\* the loop with the threshold itself let through
SelectWords_inclusive(boxes) ==
    IF boxes = <<>> THEN <<>>
    ELSE IF Head(boxes).conf >= MinConfidence /\ Head(boxes).text # ""
         THEN << Head(boxes) >> \o SelectWords_inclusive(Tail(boxes))
         ELSE SelectWords_inclusive(Tail(boxes))

RECURSIVE SelectWords(_)
\* the loop of process_image_ocr over the boxes: confidence above the
\* threshold and non-empty text
SelectWords(boxes) ==
    IF boxes = <<>> THEN <<>>
    ELSE IF Head(boxes).conf > MinConfidence /\ Head(boxes).text # ""
         THEN << Head(boxes) >> \o SelectWords(Tail(boxes))
         ELSE SelectWords(Tail(boxes))

\* round(x, 2) of the quotient sum / n, in hundredths
Round2(sum, n) == ((sum * 1000) \div n + 5) \div 10

\* process_image_ocr for page page_number of content c
process_image_ocr(c, page_number, now) ==
    LET raw   == OcrRaw(c, page_number)
        words == SelectWords(raw.words)
    IN  [ page |-> page_number, text |-> raw.text, chars |-> raw.chars,
          words |-> words, word_count |-> Len(words),
          confidence_avg |->
              IF words = <<>> THEN 0
              ELSE Round2(SumSeq([k \in DOMAIN words |-> words[k].conf]), Len(words)),
          timestamp |-> now ]

\* the content whose bytes are bs, NoFile if bs is no PDF of the table
ContentOfBytes(bs) ==
    IF \E c \in Contents : PdfTable[c].bytes = bs
    THEN CHOOSE c \in Contents : PdfTable[c].bytes = bs
    ELSE NoFile

\* process_pdf_ocr: the results per page, <<>> when rasterizing fails
process_pdf_ocr(pdf_data, now) ==
    LET c == ContentOfBytes(pdf_data)
    IN  IF c = NoFile \/ convert_from_path(c, OcrDpi) = <<>> THEN <<>>
        ELSE [ i \in 1..Len(convert_from_path(c, OcrDpi)) |-> process_image_ocr(c, i, now) ]

\* str.lower of a recognized word
Lower(w) == IF w = "Invoice" THEN "invoice" ELSE w

RECURSIVE Distinct(_)
\* the keys of word_freq, in insertion order
Distinct(ws) ==
    IF ws = <<>> THEN <<>>
    ELSE LET rest == Distinct(SubSeq(ws, 1, Len(ws) - 1))
         IN  IF ws[Len(ws)] \in Range(rest) THEN rest ELSE Append(rest, ws[Len(ws)])

Count(ws, w) == Cardinality({i \in DOMAIN ws : ws[i] = w})

RECURSIVE SortByCount(_, _)
\* sorted(word_freq.items(), key=count, reverse=True): stable, descending
SortByCount(keys, ws) ==
    IF keys = <<>> THEN <<>>
    ELSE LET best == CHOOSE i \in DOMAIN keys :
                        /\ \A j \in DOMAIN keys : Count(ws, keys[j]) <= Count(ws, keys[i])
                        /\ \A j \in 1..(i - 1) : Count(ws, keys[j]) < Count(ws, keys[i])
         IN  << << keys[best], Count(ws, keys[best]) >> >>
             \o SortByCount(Slice(keys, 1, best - 1) \o Slice(keys, best + 1, Len(keys)), ws)

\* generate_ocr_summary
generate_ocr_summary(ocr_results) ==
    LET confs == Flatten([ i \in DOMAIN ocr_results |->
                    [ k \in DOMAIN ocr_results[i].words |-> ocr_results[i].words[k].conf ] ])
        longw == Flatten([ i \in DOMAIN ocr_results |->
                    [ k \in DOMAIN ocr_results[i].words |-> ocr_results[i].words[k] ] ])
        all_words == [ k \in DOMAIN SelectSeq(longw, LAMBDA w : w.len > MinWordLen) |->
                         Lower(SelectSeq(longw, LAMBDA w : w.len > MinWordLen)[k].text) ]
        sorted == SortByCount(Distinct(all_words), all_words)
    IN  [ total_pages |-> Len(ocr_results),
          total_words |-> SumSeq([ i \in DOMAIN ocr_results |-> ocr_results[i].word_count ]),
          total_characters |-> SumSeq([ i \in DOMAIN ocr_results |-> ocr_results[i].chars ]),
          average_confidence |-> IF confs = <<>> THEN 0 ELSE Round2(SumSeq(confs), Len(confs)),
          pages_with_text |-> Cardinality({ i \in DOMAIN ocr_results : ocr_results[i].text # <<>> }),
          top_words |-> Slice(sorted, 1, Min(10, Len(sorted))) ]

\* json.dumps of one page result
json_dumps_page(r) ==
    << Json.JPageNo, ToString(r.page), Json.JPageText >> \o JsonEscape(r.text) \o << Json.JPageWords >>
    \o Flatten([ k \in DOMAIN r.words |->
                   << Json.JWordText, r.words[k].text, Json.JWordConf,
                      ToString(r.words[k].conf), Json.JWordBox >> ])
    \o << Json.JPageCount, ToString(r.word_count), Json.JPageAvg, ToString(r.confidence_avg),
          Json.JPageStamp, isoformat(r.timestamp), Json.JStrClose >>

\* json.dumps(ocr_data, ensure_ascii=False, indent=2)
json_dumps_ocr(ocr_results, now) ==
    LET sum == generate_ocr_summary(ocr_results)
    IN  << Json.JOcrDate, isoformat(now), Json.JOcrTotal, ToString(Len(ocr_results)), Json.JOcrLang >>
        \o Flatten([ i \in DOMAIN ocr_results |-> json_dumps_page(ocr_results[i]) ])
        \o << Json.JOcrSummary, Json.JSumPages, ToString(sum.total_pages),
              Json.JSumWords, ToString(sum.total_words),
              Json.JSumChars, ToString(sum.total_characters),
              Json.JSumAvg, ToString(sum.average_confidence),
              Json.JSumText, ToString(sum.pages_with_text), Json.JSumTop >>
        \o Flatten([ k \in DOMAIN sum.top_words |->
                       << Json.JTopOpen, sum.top_words[k][1], Json.JTopCount,
                          ToString(sum.top_words[k][2]), Json.JTopClose >> ])
        \o << Json.JSumLang, Json.JObjClose >>

\* the ocr_data element is written in place, or inserted when absent
put_ocr_data(text, ocr_json) ==
    IF Contains(text, OpenTag.ocr_data)
    THEN re_sub_lazy(text, OpenTag.ocr_data, CloseTag.ocr_data,
                     << OpenTag.ocr_data >> \o ocr_json \o << CloseTag.ocr_data >>)
    ELSE InsertBeforeDocClose(text,
             << Markup.Ws6, OpenTag.ocr_data >> \o ocr_json \o << CloseTag.ocr_data, Markup.WsNl4 >>)

\* the ocr_status element is set to completed
put_status_completed(text) ==
    re_sub_elem(text, OpenTag.ocr_status, CloseTag.ocr_status,
                << OpenTag.ocr_status, "completed", CloseTag.ocr_status >>)

\* re.sub of the one-token status line of the interface
put_status_line(text) ==
    [ i \in DOMAIN text |-> IF text[i] = Markup.StatusWait THEN Markup.StatusDone ELSE text[i] ]

\* update_svg_with_ocr: the text it writes back
update_svg_with_ocr(text, ocr_results, now) ==
    put_status_line(put_ocr_data(put_status_completed(text),
                                 json_dumps_ocr(ocr_results, now)))

\* 'ocr_status>completed</veridock:ocr_status>' in svg_content
ocr_already_done(text) ==
    \E i \in DOMAIN text :
        /\ i + 2 <= Len(text)
        /\ text[i] = OpenTag.ocr_status
        /\ text[i + 1] = "completed"
        /\ text[i + 2] = CloseTag.ocr_status

\* process_svg on a container text: what it returns and the text on disk
\* afterwards
process_svg(text, now) ==
    IF ocr_already_done(text) THEN [ ret |-> TRUE, text |-> text ]
    ELSE IF extract_pdf_from_svg(text) \in {DecodeError, <<>>}
         THEN [ ret |-> FALSE, text |-> text ]
    ELSE IF process_pdf_ocr(extract_pdf_from_svg(text), now) = <<>>
         THEN [ ret |-> FALSE, text |-> text ]
    ELSE [ ret |-> TRUE,
           text |-> update_svg_with_ocr(text,
                        process_pdf_ocr(extract_pdf_from_svg(text), now), now) ]

(***************************************************************************)
(* Editing a container: svg_operations.py                                  *)
(***************************************************************************)
\* the keys update_svg_metadata accepts
UpdatableKeys == { "filename", "creation_time", "pages", "ocr_status" }

RECURSIVE update_svg_metadata(_, _)
\* update_svg_metadata: new_metadata is the sequence of the dict's items,
\* each <<key, str(value)>>; the text it writes back
update_svg_metadata(text, new_metadata) ==
    IF new_metadata = <<>> THEN text
    ELSE LET key   == Head(new_metadata)[1]
             value == Head(new_metadata)[2]
         IN  update_svg_metadata(
                 IF key \in UpdatableKeys
                 THEN re_sub_elem(text, OpenTag[key], CloseTag[key],
                                  << OpenTag[key] >> \o value \o << CloseTag[key] >>)
                 ELSE text,
                 Tail(new_metadata))

\* import_svg_data: import_data gives, for each of the two keys it reads,
\* whether the key is in the bundle and json.dumps of its value; the text
\* it writes back
import_svg_data(text, import_data) ==
    LET t1 == IF import_data.has_ocr
              THEN put_status_completed(put_ocr_data(text, import_data.ocr_json))
              ELSE text
        thumb == << OpenTag.thumbnail_metadata >> \o import_data.thumb_json
                 \o << CloseTag.thumbnail_metadata >>
    IN  IF ~import_data.has_thumb THEN t1
        ELSE IF Contains(t1, OpenTag.thumbnail_metadata)
        THEN re_sub_lazy(t1, OpenTag.thumbnail_metadata,
                         CloseTag.thumbnail_metadata, thumb)
        ELSE InsertBeforeDocClose(t1, << Markup.Ws6 >> \o thumb \o << Markup.WsNl4 >>)

(***************************************************************************)
(* Validation: svg_operations.py                                           *)
(***************************************************************************)
\* the text of a file that exists and that open() or read() cannot deliver
\* as UTF-8 text
Unreadable == << "(undecodable bytes)" >>

\* the messages validate_svg puts into its lists
Msg ==
    [ NoFile    |-> "Plik nie istnieje",
      NoNs      |-> "Brak namespace VeriDock",
      NoDoc     |-> "Brak sekcji metadanych dokumentu",
      NoPdf     |-> "Brak osadzonych danych PDF",
      NoField   |-> [ filename      |-> "Brak wymaganego pola: filename",
                      creation_time |-> "Brak wymaganego pola: creation_time",
                      pages         |-> "Brak wymaganego pola: pages" ],
      BadB64    |-> "Nieprawidlowe dane PDF base64",
      SmallPdf  |-> "Podejrzanie maly rozmiar PDF",
      NoOcr     |-> "Status OCR = completed, ale brak danych OCR",
      Raised    |-> "Blad walidacji" ]

\* required_fields, in the order of the loop
RequiredFields == << "filename", "creation_time", "pages" >>

\* one message, or none
If(cond, msg) == IF cond THEN << msg >> ELSE << >>

\* the errors list of validate_svg without the namespace test
validate_errors_no_ns(text) ==
    If(~Contains(text, Markup.DocOpen), Msg.NoDoc)
    \o If(~Contains(text, Markup.PdfDataOpen), Msg.NoPdf)
    \o Flatten([ i \in DOMAIN RequiredFields |->
                   If(get_svg_metadata(text, RequiredFields[i]) = << >>,
                      Msg.NoField[RequiredFields[i]]) ])
    \o If(re_search_pdf(text) # << >> /\ b64decode(re_search_pdf(text)) = DecodeError,
          Msg.BadB64)

\* the errors list of validate_svg for the text of an existing, readable file
validate_errors(text) ==
    If(~Contains(text, Markup.NsDecl), Msg.NoNs)
    \o If(~Contains(text, Markup.DocOpen), Msg.NoDoc)
    \o If(~Contains(text, Markup.PdfDataOpen), Msg.NoPdf)
    \o Flatten([ i \in DOMAIN RequiredFields |->
                   If(get_svg_metadata(text, RequiredFields[i]) = << >>,
                      Msg.NoField[RequiredFields[i]]) ])
    \o If(re_search_pdf(text) # << >> /\ b64decode(re_search_pdf(text)) = DecodeError,
          Msg.BadB64)

\* its warnings list
validate_warnings(text) ==
    If(/\ re_search_pdf(text) # << >>
       /\ b64decode(re_search_pdf(text)) # DecodeError
       /\ Len(b64decode(re_search_pdf(text))) < MinPdfSize,
       Msg.SmallPdf)
    \o If(/\ get_svg_metadata(text, "ocr_status") = << "completed" >>
          /\ ~Contains(text, OpenTag.ocr_data),
          Msg.NoOcr)

\* validate_svg without its last assignment to 'valid', which then keeps
\* the False it starts with
validate_svg_unset(text) ==
    IF text = Falsy
    THEN [ valid |-> FALSE, errors |-> << Msg.NoFile >>, warnings |-> << >> ]
    ELSE IF text = Unreadable
    THEN [ valid |-> FALSE, errors |-> << Msg.Raised >>, warnings |-> << >> ]
    ELSE [ valid    |-> FALSE,
           errors   |-> validate_errors(text),
           warnings |-> validate_warnings(text) ]

\* validate_svg: the dict it returns (without the metadata it copies) for
\* a path with no file, a file that cannot be read, and a text
validate_svg(text) ==
    IF text = Falsy
    THEN [ valid |-> FALSE, errors |-> << Msg.NoFile >>, warnings |-> << >> ]
    ELSE IF text = Unreadable
    THEN [ valid |-> FALSE, errors |-> << Msg.Raised >>, warnings |-> << >> ]
    ELSE [ valid    |-> Len(validate_errors(text)) = 0,
           errors   |-> validate_errors(text),
           warnings |-> validate_warnings(text) ]

(***************************************************************************)
(* Discovery: veridock_converter.py                                        *)
(***************************************************************************)
\* the source paths under the watched root; all end in .pdf, ignoring case
Paths == { "a.pdf", "b.pdf", "a.PDF" }

\* convert: os.path.join(dirname, splitext(basename)[0] + ".svg")
SvgOf(pdf_path) == IF pdf_path = "b.pdf" THEN "b.svg" ELSE "a.svg"

SvgPaths == { SvgOf(p) : p \in Paths }

\* Python's None, for a path
None == "None"

\* hashlib.md5(...).hexdigest(): one digest per content
Md5Hex ==
    << "md5:0cc1", "md5:92eb", "md5:4a8a", "md5:8277", "md5:d41d", "md5:e1b8",
       "md5:5f4d", "md5:b3c7" >>

\* get_file_hash digesting nothing: hashlib.md5().hexdigest() without the read
get_file_hash_unread(c) == Md5Hex[5]

\* get_file_hash of a file with content c
get_file_hash(c) == Md5Hex[c]

\* the orders in which os.walk may list the members of S
Orders(S) ==
    { o \in [1..Cardinality(S) -> S] : \A i, j \in DOMAIN o : o[i] = o[j] => i = j }

\* find_pdf_files without the test against processed_files
find_pdf_files_unfiltered(fs, processed) ==
    { p \in Paths : fs[p] # NoFile }

\* find_pdf_files: the paths it returns (in some directory order)
find_pdf_files(fs, processed) ==
    { p \in Paths : fs[p] # NoFile /\ get_file_hash(fs[p]) \notin processed }

(***************************************************************************)
(* State                                                                   *)
(***************************************************************************)
\* the thread of run_daemon / main_loop, and the watchdog observer thread
Threads == { "main", "observer" }

VARIABLES
    program,            \* which entry point runs: "service", "converter", "tools"
    files,              \* path -> content of the source file, NoFile if absent
    svgs,               \* container path -> its text, Falsy if absent
    extracted,          \* container path -> bytes written by extract_pdf, DecodeError if none
    processed_files,    \* VeriDockConverter.processed_files
    processing_files,   \* VeriDockFileHandler.processing_files
    events,             \* notifications delivered to the observer, not yet handled
    clock,              \* datetime.now()
    envCount,           \* writes made by other programs so far
    pc,                 \* thread -> where it is
    cur,                \* thread -> pdf_path of its process_pdf call
    svg_path,           \* thread -> svg_path of its process_pdf call
    pdf_data,           \* thread -> content read by pdf_to_base64 in its convert call
    pdf_files,          \* the list find_pdf_files returned to the main thread
    scan_hash,          \* file_hash of each member of pdf_files when it was listed
    idx,                \* position of the main thread in pdf_files
    ret_log,            \* what process_pdf returned for pdf_files[1..idx-1]
    svg_files,          \* the list globbed by process_ocr
    sidx,               \* position of the main thread in svg_files
    new_since_scan,     \* a source file was written since find_pdf_files last ran
    clean_rescan,       \* the last find_pdf_files ran with new_since_scan false
    lastOp,             \* the tool that ran last, and on what
    report,             \* what validate_svg returned last
    wait,               \* the wait_for_file_complete call of the observer thread
    inst,               \* the daemon processes started on one PID file
    thumbs_ret,         \* thread -> what generate_thumbnails returned to its process_pdf call
    buf,                \* thread -> container text it is about to write back
    running,            \* VeriDockDaemon.running
    in_stop,            \* the main thread is inside stop(), joining the observer
    pid_file,           \* the PID file exists
    deps                \* pytesseract, PIL and pdf2image can be imported

vars == << program, files, svgs, extracted, processed_files, processing_files,
           events, clock, envCount, pc, cur, svg_path, pdf_data, pdf_files,
           scan_hash, idx, ret_log, svg_files, sidx, new_since_scan,
           clean_rescan, lastOp, report, wait, inst, thumbs_ret, buf, running,
           in_stop, pid_file, deps >>

\* variables only the main thread's loops write
mainVars == << pdf_files, scan_hash, svg_files, sidx, clean_rescan >>

\* the life cycle of the service: VeriDockDaemon.start to exit
lifeVars == << running, in_stop, pid_file, deps >>

NoOp ==
    [ op |-> "none", path |-> None, svg |-> None, content |-> NoFile,
      ok |-> FALSE, twice |-> FALSE ]

\* the record of a tool run: its name, the source path and the container
\* it worked on, the source content it read, whether it succeeded, and
\* whether the run before it was the same tool on the same files
Op(name, p, s, c, ok) ==
    [ op |-> name, path |-> p, svg |-> s, content |-> c, ok |-> ok,
      twice |-> (lastOp.op = name /\ lastOp.path = p /\ lastOp.svg = s) ]

\* wait_for_file_complete on entry: start_time = time.time(), last_size = 0;
\* elapsed counts the half seconds slept since start_time, polls keeps what
\* the last two calls of os.path.getsize gave (-1: it raised), ret how the
\* call ended
WaitStart == [ elapsed |-> 0, last_size |-> 0, polls |-> << >>, ret |-> "none" ]

\* the daemon processes that may be started on the same PID file
Daemons == { "d1", "d2", "d3" }

\* no daemon has called start(); the PID file does not exist
NoInst == [ pc |-> [ d \in Daemons |-> "new" ], pid |-> None ]

\* no report yet
NoReport == [ valid |-> FALSE, errors |-> << >>, warnings |-> << >> ]

\* state shared by the entry points after construction, but for the
\* containers on disk
InitState ==
    /\ extracted = [ s \in SvgPaths |-> DecodeError ]
    /\ processed_files = {}
    /\ processing_files = {}
    /\ events = << >>
    /\ clock = 0
    /\ envCount = 0
    /\ cur = [ t \in Threads |-> None ]
    /\ svg_path = [ t \in Threads |-> None ]
    /\ pdf_data = [ t \in Threads |-> NoFile ]
    /\ pdf_files = << >>
    /\ scan_hash = << >>
    /\ idx = 1
    /\ ret_log = << >>
    /\ svg_files = << >>
    /\ sidx = 1
    /\ new_since_scan = TRUE
    /\ clean_rescan = FALSE
    /\ lastOp = NoOp
    /\ report = NoReport
    /\ wait = WaitStart
    /\ inst = NoInst
    /\ thumbs_ret = [ t \in Threads |-> FALSE ]
    /\ buf = [ t \in Threads |-> Falsy ]
    /\ running = TRUE
    /\ in_stop = FALSE
    /\ pid_file = (program = "service")

\* the entry points start with no container on disk
InitCommon ==
    /\ svgs = [ s \in SvgPaths |-> Falsy ]
    /\ InitState

\* the daemons start on an empty watched directory: VeriDockDaemon.start
\* runs initial_scan and then main_loop; VeriDockConverter.run_daemon loops
Init ==
    /\ program \in { "service", "converter" }
    /\ files = [ p \in Paths |-> NoFile ]
    /\ pc = [ t \in Threads |-> IF t = "main" THEN "scan" ELSE "idle" ]
    /\ deps = TRUE
    /\ InitCommon

(***************************************************************************)
(* Other programs writing into the watched directory                       *)
(***************************************************************************)
\* the documents dropped into the watched directory: those of PdfTable
\* of at most three pages whose title holds no piece of container markup
Dropped ==
    { c \in Contents :
        /\ PdfTable[c].pages <= 3
        /\ \A i \in DOMAIN PdfTable[c].title :
              PdfTable[c].title[i] \notin MarkupTokens \cup { Markup.PdfUri } }

\* a new file p with content c appears; the observer of the service is
\* notified (on_created / on_moved) when its queue has room
CreateFile(p, c) ==
    /\ program \in { "service", "converter" }
    /\ envCount < MaxEnv
    /\ files[p] = NoFile
    /\ files' = [ files EXCEPT ![p] = c ]
    /\ envCount' = envCount + 1
    /\ new_since_scan' = TRUE
    /\ IF program = "service" /\ Len(events) < MaxQueue
       THEN events' = Append(events, p)
       ELSE events' = events
    /\ UNCHANGED << lastOp, report, wait, inst, lifeVars, buf, thumbs_ret >>
    /\ UNCHANGED << program, svgs, extracted, processed_files, processing_files,
                    clock, pc, cur, svg_path, pdf_data, idx, ret_log,
                    pdf_files, scan_hash, svg_files, sidx, clean_rescan >>

\* an existing file p is written again, now with content c (a copy still in
\* progress, or a replacement); no notification the handler listens to
WriteFile(p, c) ==
    /\ program \in { "service", "converter" }
    /\ envCount < MaxEnv
    /\ files[p] # NoFile
    /\ files[p] # c
    /\ files' = [ files EXCEPT ![p] = c ]
    /\ envCount' = envCount + 1
    /\ new_since_scan' = TRUE
    /\ UNCHANGED << lastOp, report, wait, inst, lifeVars, buf, thumbs_ret >>
    /\ UNCHANGED << program, svgs, extracted, processed_files, processing_files,
                    events, clock, pc, cur, svg_path, pdf_data, idx, ret_log,
                    mainVars >>

(***************************************************************************)
(* process_pdf, step by step, in thread t                                  *)
(***************************************************************************)
\* where the main thread goes after the for loop over pdf_files
AfterLoop == IF program = "service" THEN "main_loop" ELSE "ocr_check"

\* process_pdf returns r to its caller: the for loop of the main thread
\* takes the next member of pdf_files; process_pdf_file of the observer
\* discards the path from processing_files and returns
Return(t, r) ==
    IF t = "main"
    THEN /\ ret_log' = Append(ret_log, r)
         /\ idx' = idx + 1
         /\ IF idx + 1 <= Len(pdf_files)
            THEN /\ pc' = [ pc EXCEPT ![t] = "convert" ]
                 /\ cur' = [ cur EXCEPT ![t] = pdf_files[idx + 1] ]
            ELSE /\ pc' = [ pc EXCEPT ![t] = AfterLoop ]
                 /\ cur' = [ cur EXCEPT ![t] = None ]
         /\ UNCHANGED processing_files
    ELSE /\ processing_files' = processing_files \ { cur[t] }
         /\ pc' = [ pc EXCEPT ![t] = "idle" ]
         /\ cur' = [ cur EXCEPT ![t] = None ]
         /\ UNCHANGED << ret_log, idx >>

\* thread t can take a step: the main thread stands still while the signal
\* handler it runs is inside stop(), waiting in observer.join()
Awake(t) == t = "observer" \/ ~in_stop

\* process_pdf going on whatever convert returned
svg_path_ignored(path) == TRUE

\* "if svg_path:" in process_pdf
svg_path_truthy(path) == path # None

\* svg_converter.convert(pdf_path): the container is written and its path
\* returned, or None is returned and process_pdf returns False
ConvertStep(t) ==
    /\ pc[t] = "convert"
    /\ Awake(t)
    /\ deps
    /\ thumbs_ret' = [ thumbs_ret EXCEPT ![t] = FALSE ]
    /\ LET p    == cur[t]
           text == convert(p, files[p], clock)
           path == IF text = Falsy THEN None ELSE SvgOf(p)
       IN  /\ IF text = Falsy
              THEN UNCHANGED << svgs, clock >>
              ELSE /\ clock < MaxClock
                   /\ svgs' = [ svgs EXCEPT ![SvgOf(p)] = text ]
                   /\ clock' = clock + 1
           /\ UNCHANGED << lastOp, report, wait, inst, lifeVars, buf >>
           /\ IF svg_path_truthy(path)
              THEN /\ svg_path' = [ svg_path EXCEPT ![t] = path ]
                   /\ pdf_data' = [ pdf_data EXCEPT ![t] = files[p] ]
                   /\ pc' = [ pc EXCEPT ![t] = "thumbs" ]
                   /\ UNCHANGED << cur, idx, ret_log, processing_files >>
              ELSE /\ Return(t, FALSE)
                   /\ UNCHANGED << svg_path, pdf_data >>
    /\ UNCHANGED << program, files, extracted, processed_files, events, envCount,
                    new_since_scan, mainVars >>

\* png_converter.generate_thumbnails(pdf_path, svg_path)
ThumbsStep(t) ==
    /\ pc[t] = "thumbs"
    /\ Awake(t)
    /\ thumbs_ret' = [ thumbs_ret EXCEPT
                         ![t] = create_thumbnail_matrix(files[cur[t]]) # Falsy ]
    /\ LET p == cur[t]
           s == svg_path[t]
       IN  /\ svgs' = IF s # None /\ files[p] # NoFile
                      THEN [ svgs EXCEPT ![s] = generate_thumbnails(files[p], svgs[s]) ]
                      ELSE svgs
           /\ UNCHANGED << lastOp, report, wait, inst, lifeVars, buf >>
    /\ pc' = [ pc EXCEPT ![t] = "hash" ]
    /\ UNCHANGED << program, files, extracted, processed_files, processing_files,
                    events, clock, envCount, cur, svg_path, pdf_data, idx,
                    ret_log, new_since_scan, mainVars >>

\* file_hash = self.get_file_hash(pdf_path); self.processed_files.add(file_hash)
\* -- open() raises when the file is gone, and process_pdf returns False
HashStep(t) ==
    /\ pc[t] = "hash"
    /\ Awake(t)
    /\ thumbs_ret' = [ thumbs_ret EXCEPT ![t] = FALSE ]
    /\ LET p == cur[t]
       IN  /\ UNCHANGED << lastOp, report, wait, inst, lifeVars, buf >>
           /\ IF files[p] = NoFile
              THEN /\ Return(t, FALSE)
                   /\ UNCHANGED processed_files
              ELSE /\ processed_files' = processed_files \cup { get_file_hash(files[p]) }
                   /\ pc' = [ pc EXCEPT ![t] = "remove" ]
                   /\ UNCHANGED << cur, idx, ret_log, processing_files >>
    /\ UNCHANGED << program, files, svgs, extracted, events, clock, envCount,
                    svg_path, pdf_data, new_since_scan, mainVars >>

\* os.remove(pdf_path); return True -- or it raises, and False is returned
RemoveStep(t) ==
    /\ pc[t] = "remove"
    /\ Awake(t)
    /\ LET p == cur[t]
       IN  /\ UNCHANGED << lastOp, report, wait, inst, lifeVars, buf, thumbs_ret >>
           /\ IF files[p] = NoFile
              THEN /\ Return(t, FALSE)
                   /\ UNCHANGED files
              ELSE /\ files' = [ files EXCEPT ![p] = NoFile ]
                   /\ Return(t, TRUE)
    /\ UNCHANGED << program, svgs, extracted, processed_files, events, clock,
                    envCount, svg_path, pdf_data, new_since_scan, mainVars >>

(***************************************************************************)
(* The main thread: run_daemon / initial_scan and main_loop                *)
(***************************************************************************)
\* pdf_files = self.find_pdf_files(), and the for loop takes its first member
Scan ==
    /\ program \in { "service", "converter" }
    /\ pc["main"] = "scan"
    /\ Awake("main")
    /\ \E order \in Orders(find_pdf_files(files, processed_files)) :
          /\ pdf_files' = order
          /\ scan_hash' = [ i \in DOMAIN order |-> get_file_hash(files[order[i]]) ]
          /\ IF order # << >>
             THEN /\ pc' = [ pc EXCEPT !["main"] = "convert" ]
                  /\ cur' = [ cur EXCEPT !["main"] = order[1] ]
             ELSE /\ pc' = [ pc EXCEPT !["main"] = AfterLoop ]
                  /\ cur' = [ cur EXCEPT !["main"] = None ]
    /\ idx' = 1
    /\ ret_log' = << >>
    /\ clean_rescan' = ~new_since_scan
    /\ new_since_scan' = FALSE
    /\ UNCHANGED << lastOp, report, wait, inst, lifeVars, buf, thumbs_ret >>
    /\ UNCHANGED << program, files, svgs, extracted, processed_files,
                    processing_files, events, clock, envCount, svg_path,
                    pdf_data, svg_files, sidx >>

\* a listing that leaves out the containers whose OCR is completed
ListSvg_unfinished ==
    { s \in SvgPaths : svgs[s] # Falsy /\ ~ocr_already_done(svgs[s]) }

\* the containers os.walk lists in process_ocr
ListSvg == { s \in SvgPaths : svgs[s] # Falsy }

\* process_ocr starts (the interval has elapsed): the directory is listed
StartOcr ==
    /\ pc["main"] \in { "main_loop", "ocr_check" }
    /\ Awake("main")
    /\ running
    /\ deps
    /\ \E order \in Orders(ListSvg) : svg_files' = order
    /\ sidx' = 1
    /\ pc' = [ pc EXCEPT !["main"] = "ocr" ]
    /\ UNCHANGED << lastOp, report, wait, inst, lifeVars, buf, thumbs_ret >>
    /\ UNCHANGED << program, files, svgs, extracted, processed_files,
                    processing_files, events, clock, envCount, cur, svg_path,
                    pdf_data, pdf_files, scan_hash, idx, ret_log,
                    new_since_scan, clean_rescan >>

\* run_daemon: the OCR interval has not elapsed; sleep, then scan again
SkipOcr ==
    /\ pc["main"] = "ocr_check"
    /\ Awake("main")
    /\ pc' = [ pc EXCEPT !["main"] = "scan" ]
    /\ UNCHANGED << lastOp, report, wait, inst, lifeVars, buf, thumbs_ret >>
    /\ UNCHANGED << program, files, svgs, extracted, processed_files,
                    processing_files, events, clock, envCount, cur, svg_path,
                    pdf_data, idx, ret_log, new_since_scan, mainVars >>

\* ocr_processor.process_svg(svg_path) for the next listed container
OcrStep ==
    /\ pc["main"] = "ocr"
    /\ sidx <= Len(svg_files)
    /\ Awake("main")
    /\ LET s == svg_files[sidx]
           r == process_svg(svgs[s], clock)
       IN  /\ IF r.text = svgs[s]
              THEN UNCHANGED << svgs, clock >>
              ELSE /\ clock < MaxClock
                   /\ svgs' = [ svgs EXCEPT ![s] = r.text ]
                   /\ clock' = clock + 1
           /\ UNCHANGED << lastOp, report, wait, inst, lifeVars, buf, thumbs_ret >>
    /\ sidx' = sidx + 1
    /\ UNCHANGED << program, files, extracted, processed_files, processing_files,
                    events, envCount, pc, cur, svg_path, pdf_data, pdf_files,
                    scan_hash, svg_files, idx, ret_log, new_since_scan,
                    clean_rescan >>

\* process_ocr returns: main_loop sleeps and checks again; run_daemon
\* sleeps and scans again
EndOcr ==
    /\ pc["main"] = "ocr"
    /\ sidx > Len(svg_files)
    /\ Awake("main")
    /\ pc' = [ pc EXCEPT !["main"] = IF program = "service" THEN "main_loop" ELSE "scan" ]
    /\ UNCHANGED << lastOp, report, wait, inst, lifeVars, buf, thumbs_ret >>
    /\ UNCHANGED << program, files, svgs, extracted, processed_files,
                    processing_files, events, clock, envCount, cur, svg_path,
                    pdf_data, idx, ret_log, new_since_scan, mainVars >>

(***************************************************************************)
(* The observer thread: VeriDockFileHandler                                *)
(***************************************************************************)
\* on_created / on_moved -> process_pdf_file: return at once when the path
\* is in processing_files, else wait_for_file_complete
Dispatch ==
    /\ pc["observer"] = "idle"
    /\ running
    /\ events # << >>
    /\ events' = Tail(events)
    /\ IF Head(events) \in processing_files
       THEN UNCHANGED << pc, cur >>
       ELSE /\ pc' = [ pc EXCEPT !["observer"] = "wait" ]
            /\ cur' = [ cur EXCEPT !["observer"] = Head(events) ]
    /\ UNCHANGED << lastOp, report, wait, inst, lifeVars, buf, thumbs_ret >>
    /\ UNCHANGED << program, files, svgs, extracted, processed_files,
                    processing_files, clock, envCount, svg_path, pdf_data, idx,
                    ret_log, new_since_scan, mainVars >>

\* wait_for_file_complete returns (size stable, or timeout);
\* self.processing_files.add(file_path); process_pdf is called
WaitDone ==
    /\ pc["observer"] = "wait"
    /\ processing_files' = processing_files \cup { cur["observer"] }
    /\ pc' = [ pc EXCEPT !["observer"] = "convert" ]
    /\ UNCHANGED << lastOp, report, wait, inst, lifeVars, buf, thumbs_ret >>
    /\ UNCHANGED << program, files, svgs, extracted, processed_files, events,
                    clock, envCount, cur, svg_path, pdf_data, idx, ret_log,
                    new_since_scan, mainVars >>

Next ==
    \/ \E p \in Paths, c \in Dropped : CreateFile(p, c)
    \/ \E p \in Paths, c \in Dropped : WriteFile(p, c)
    \/ Scan
    \/ \E t \in Threads : ConvertStep(t)
    \/ \E t \in Threads : ThumbsStep(t)
    \/ \E t \in Threads : HashStep(t)
    \/ \E t \in Threads : RemoveStep(t)
    \/ StartOcr
    \/ SkipOcr
    \/ OcrStep
    \/ EndOcr
    \/ Dispatch
    \/ WaitDone

Spec == Init /\ [][Next]_vars

\* veridock_converter.py run on its own: run_daemon, no observer
InitConverter ==
    /\ program = "converter"
    /\ files = [ p \in Paths |-> NoFile ]
    /\ pc = [ t \in Threads |-> IF t = "main" THEN "scan" ELSE "idle" ]
    /\ deps = TRUE
    /\ InitCommon

NextConverter ==
    \/ \E p \in Paths, c \in Dropped : CreateFile(p, c)
    \/ \E p \in Paths, c \in Dropped : WriteFile(p, c)
    \/ Scan
    \/ ConvertStep("main")
    \/ ThumbsStep("main")
    \/ HashStep("main")
    \/ RemoveStep("main")
    \/ StartOcr
    \/ SkipOcr
    \/ OcrStep
    \/ EndOcr

SpecConverter == InitConverter /\ [][NextConverter]_vars

(***************************************************************************)
(* The service from start to exit: daemon_service.py.  The two enrichment  *)
(* stages are taken at the grain of their file accesses: each reads the    *)
(* container, edits the text in memory and writes it back.                 *)
(***************************************************************************)
\* cleanup() -> remove_pid_file(): whether the PID file exists afterwards
cleanup_skipped(pid) == pid

cleanup(pid) == FALSE

\* process_pdf cannot import its stages (the import guards call exit(1)):
\* SystemExit passes every "except Exception"; in the main thread it leaves
\* start() during initial_scan, in the observer thread it ends the thread
ImportExit(t) ==
    /\ program = "service"
    /\ pc[t] = "convert"
    /\ Awake(t)
    /\ ~deps
    /\ pc' = [ pc EXCEPT ![t] = IF t = "main" THEN "aborted" ELSE "dead" ]
    /\ UNCHANGED << program, files, svgs, extracted, processed_files,
                    processing_files, events, clock, envCount, cur, svg_path,
                    pdf_data, idx, ret_log, new_since_scan, mainVars, lastOp, report, wait, inst,
                    thumbs_ret, buf, lifeVars >>

\* generate_thumbnails up to the read in update_svg_thumbnails: the matrix
\* is made from the source, the container is read and edited in memory
ThumbsRead(t) ==
    /\ program = "service"
    /\ pc[t] = "thumbs"
    /\ Awake(t)
    /\ LET p   == cur[t]
           s   == svg_path[t]
           mat == create_thumbnail_matrix(files[p])
       IN  /\ thumbs_ret' = [ thumbs_ret EXCEPT ![t] = mat # Falsy ]
           /\ IF mat = Falsy \/ svgs[s] = Falsy
              THEN /\ pc' = [ pc EXCEPT ![t] = "hash" ]
                   /\ UNCHANGED buf
              ELSE /\ pc' = [ pc EXCEPT ![t] = "thumbs_write" ]
                   /\ buf' = [ buf EXCEPT ![t] =
                                 update_svg_thumbnails(svgs[s], mat[1].matrix_base64,
                                                       mat[1].metadata) ]
    /\ UNCHANGED << program, files, svgs, extracted, processed_files,
                    processing_files, events, clock, envCount, cur, svg_path,
                    pdf_data, idx, ret_log, new_since_scan, mainVars, lastOp, report, wait, inst,
                    lifeVars >>

\* the write that ends update_svg_thumbnails
ThumbsWrite(t) ==
    /\ pc[t] = "thumbs_write"
    /\ Awake(t)
    /\ svgs' = [ svgs EXCEPT ![svg_path[t]] = buf[t] ]
    /\ buf' = [ buf EXCEPT ![t] = Falsy ]
    /\ pc' = [ pc EXCEPT ![t] = "hash" ]
    /\ UNCHANGED << program, files, extracted, processed_files,
                    processing_files, events, clock, envCount, cur, svg_path,
                    pdf_data, idx, ret_log, new_since_scan, mainVars, lastOp, report, wait, inst,
                    thumbs_ret, lifeVars >>

\* process_svg up to the read in update_svg_with_ocr: nothing is written
\* when OCR was done before or fails, else the edited text is held
OcrRead ==
    /\ program = "service"
    /\ pc["main"] = "ocr"
    /\ sidx <= Len(svg_files)
    /\ Awake("main")
    /\ LET s == svg_files[sidx]
           r == process_svg(svgs[s], clock)
       IN  IF r.text = svgs[s]
           THEN /\ sidx' = sidx + 1
                /\ UNCHANGED << pc, buf >>
           ELSE /\ clock < MaxClock
                /\ buf' = [ buf EXCEPT !["main"] = r.text ]
                /\ pc' = [ pc EXCEPT !["main"] = "ocr_write" ]
                /\ UNCHANGED sidx
    /\ UNCHANGED << program, files, svgs, extracted, processed_files,
                    processing_files, events, clock, envCount, cur, svg_path,
                    pdf_data, pdf_files, scan_hash, svg_files, idx, ret_log,
                    new_since_scan, clean_rescan, lastOp, report, wait, inst, thumbs_ret, lifeVars >>

\* the write that ends update_svg_with_ocr; process_svg returns
OcrWrite ==
    /\ pc["main"] = "ocr_write"
    /\ Awake("main")
    /\ svgs' = [ svgs EXCEPT ![svg_files[sidx]] = buf["main"] ]
    /\ buf' = [ buf EXCEPT !["main"] = Falsy ]
    /\ clock' = clock + 1
    /\ sidx' = sidx + 1
    /\ pc' = [ pc EXCEPT !["main"] = "ocr" ]
    /\ UNCHANGED << program, files, extracted, processed_files,
                    processing_files, events, envCount, cur, svg_path,
                    pdf_data, pdf_files, scan_hash, svg_files, idx, ret_log,
                    new_since_scan, clean_rescan, lastOp, report, wait, inst, thumbs_ret, lifeVars >>

\* where the write of a text may stop when the process is killed, of all
\* places the two that are followed: open(svg_path, 'w') has emptied the
\* file and nothing is written yet, and the text is written up to the end
\* of its ocr_status element
WriteCuts(text) == { 0 } \cup { i \in DOMAIN text : text[i] = CloseTag.ocr_status }

\* the process is killed (SIGKILL, power loss) inside the write that ends
\* update_svg_with_ocr: the file keeps the first k tokens of the text, both
\* threads are gone and nothing is cleaned up
OcrCrash(k) ==
    /\ program = "service"
    /\ pc["main"] = "ocr_write"
    /\ Awake("main")
    /\ k \in WriteCuts(buf["main"])
    /\ svgs' = [ svgs EXCEPT ![svg_files[sidx]] = Slice(buf["main"], 1, k) ]
    /\ pc' = [ t \in Threads |-> "killed" ]
    /\ UNCHANGED << program, files, extracted, processed_files,
                    processing_files, events, clock, envCount, cur, svg_path,
                    pdf_data, pdf_files, scan_hash, svg_files, sidx, idx, ret_log,
                    new_since_scan, clean_rescan, lastOp, report, wait, inst,
                    thumbs_ret, buf, lifeVars >>

\* main_loop calls process_ocr, whose import of ocr_processor exits:
\* SystemExit leaves main_loop through its finally clause
OcrImportExit ==
    /\ program = "service"
    /\ pc["main"] = "main_loop"
    /\ Awake("main")
    /\ running
    /\ ~deps
    /\ pc' = [ pc EXCEPT !["main"] = "exited" ]
    /\ pid_file' = cleanup(pid_file)
    /\ UNCHANGED << program, files, svgs, extracted, processed_files,
                    processing_files, events, clock, envCount, cur, svg_path,
                    pdf_data, idx, ret_log, new_since_scan, mainVars, lastOp, report, wait, inst,
                    thumbs_ret, buf, running, in_stop, deps >>

\* SIGTERM or SIGINT: signal_handler runs stop() in the main thread, which
\* clears running, stops the observer and waits for it in observer.join()
Signal ==
    /\ program = "service"
    /\ running
    /\ pc["main"] \notin { "exited", "aborted" }
    /\ running' = FALSE
    /\ in_stop' = TRUE
    /\ UNCHANGED << program, files, svgs, extracted, processed_files,
                    processing_files, events, clock, envCount, pc, cur,
                    svg_path, pdf_data, idx, ret_log, new_since_scan, mainVars,
                    lastOp, report, wait, inst, thumbs_ret, buf, pid_file, deps >>

\* observer.join() returns once the observer thread has left its handler;
\* stop() calls cleanup() and the main thread goes on where it was
StopJoined ==
    /\ in_stop
    /\ pc["observer"] \in { "idle", "dead" }
    /\ in_stop' = FALSE
    /\ pid_file' = cleanup(pid_file)
    /\ UNCHANGED << program, files, svgs, extracted, processed_files,
                    processing_files, events, clock, envCount, pc, cur,
                    svg_path, pdf_data, idx, ret_log, new_since_scan, mainVars,
                    lastOp, report, wait, inst, thumbs_ret, buf, running, deps >>

\* "while self.running" fails: main_loop ends through its finally clause,
\* start() returns and the process exits
ExitLoop ==
    /\ program = "service"
    /\ pc["main"] = "main_loop"
    /\ Awake("main")
    /\ ~running
    /\ pc' = [ pc EXCEPT !["main"] = "exited" ]
    /\ pid_file' = cleanup(pid_file)
    /\ UNCHANGED << program, files, svgs, extracted, processed_files,
                    processing_files, events, clock, envCount, cur, svg_path,
                    pdf_data, idx, ret_log, new_since_scan, mainVars, lastOp, report, wait, inst,
                    thumbs_ret, buf, running, in_stop, deps >>

\* the documents dropped while the life cycle is followed: the regular
\* one, the damaged one and the large-format one
LifeDrops == { c \in Dropped : PdfTable[c].info \/ PdfTable[c].bytes = <<37, 80>> }

\* the service is started with or without the OCR libraries installed
InitService ==
    /\ program = "service"
    /\ files = [ p \in Paths |-> NoFile ]
    /\ pc = [ t \in Threads |-> IF t = "main" THEN "scan" ELSE "idle" ]
    /\ deps \in BOOLEAN
    /\ InitCommon

NextService ==
    \/ \E p \in Paths, c \in LifeDrops : CreateFile(p, c)
    \/ \E p \in Paths, c \in LifeDrops : WriteFile(p, c)
    \/ Scan
    \/ \E t \in Threads : ConvertStep(t)
    \/ \E t \in Threads : ImportExit(t)
    \/ \E t \in Threads : ThumbsRead(t)
    \/ \E t \in Threads : ThumbsWrite(t)
    \/ \E t \in Threads : HashStep(t)
    \/ \E t \in Threads : RemoveStep(t)
    \/ StartOcr
    \/ OcrImportExit
    \/ OcrRead
    \/ OcrWrite
    \/ \E k \in 0..Len(buf["main"]) : OcrCrash(k)
    \/ EndOcr
    \/ Dispatch
    \/ WaitDone
    \/ Signal
    \/ StopJoined
    \/ ExitLoop

SpecService == InitService /\ [][NextService]_vars

\* the steps of the main thread and of the observer thread that end
\* without editing a container text
MainStep ==
    \/ Scan
    \/ ConvertStep("main") \/ ImportExit("main")
    \/ HashStep("main") \/ RemoveStep("main")
    \/ StartOcr \/ OcrImportExit \/ EndOcr
    \/ StopJoined \/ ExitLoop

ObserverStep ==
    \/ Dispatch \/ WaitDone
    \/ ConvertStep("observer") \/ ImportExit("observer")
    \/ HashStep("observer") \/ RemoveStep("observer")

\* the service while documents arrive, none of them rewritten
NextLive ==
    \/ \E p \in Paths, c \in LifeDrops : CreateFile(p, c)
    \/ MainStep
    \/ ObserverStep
    \/ \E t \in Threads : ThumbsRead(t)
    \/ \E t \in Threads : ThumbsWrite(t)
    \/ OcrRead
    \/ OcrWrite
    \/ Signal

\* the service with both threads scheduled: a thread that can take one of
\* the steps above takes one (sleeps and polling loops end).  Nothing is
\* assumed about how long the edit of a container text takes.
SpecServiceLive ==
    /\ InitService
    /\ [][NextLive]_vars
    /\ WF_vars(MainStep)
    /\ WF_vars(ObserverStep)

(***************************************************************************)
(* The tools run one at a time by hand: the command lines of pdf_to_svg,   *)
(* ocr_processor and svg_operations, and the public methods behind them    *)
(***************************************************************************)
\* the bundles given to import_data
ImportBundles ==
    { [ has_ocr |-> TRUE, ocr_json |-> << "{}" >>,
        has_thumb |-> FALSE, thumb_json |-> << >> ],
      [ has_ocr |-> TRUE, ocr_json |-> << Markup.Quote, Markup.Quote >>,
        has_thumb |-> TRUE, thumb_json |-> << "{}" >> ],
      \* thumbnail metadata alone
      [ has_ocr |-> FALSE, ocr_json |-> << >>,
        has_thumb |-> TRUE, thumb_json |-> << "{}" >> ],
      \* OCR text of two lines: json.dumps writes the line break as \n
      [ has_ocr |-> TRUE, ocr_json |-> << "a", Markup.EscLF, "b" >>,
        has_thumb |-> FALSE, thumb_json |-> << >> ] }

\* the dicts given to update_svg_metadata; the value of the last one holds
\* the closing tag of its own field
MetadataUpdates ==
    { << << "ocr_status", << "completed" >> >> >>,
      << << "filename", << "x", CloseTag.filename, "y" >> >> >>,
      << << "pages", << "7" >> >>, << "ocr_status", << "pending" >> >>,
         << "author", << "x" >> >> >> }

\* the directories the tools are run in: source files under the two names
\* that share a container name, no container yet
ToolDirs == { f \in [ Paths -> Contents \cup { NoFile } ] : f["b.pdf"] = NoFile }

InitTools ==
    /\ program = "tools"
    /\ files \in ToolDirs
    /\ pc = [ t \in Threads |-> "done" ]
    /\ deps = TRUE
    /\ InitCommon

\* what every tool leaves alone
toolFrame ==
    << program, files, processed_files, processing_files, events, envCount, pc,
       cur, svg_path, pdf_data, idx, ret_log, new_since_scan, mainVars,
       lifeVars, buf, thumbs_ret, report, wait, inst >>

\* a tool writes text into container s; the clock moves on
WriteSvg(s, text) ==
    /\ clock < MaxClock
    /\ svgs' = [ svgs EXCEPT ![s] = text ]
    /\ clock' = clock + 1

\* pdf_to_svg.py <pdf>: PDFToSVGConverter.convert
ToolConvert(p) ==
    /\ program = "tools"
    /\ LET text == convert(p, files[p], clock)
       IN  /\ IF text = Falsy
              THEN UNCHANGED << svgs, clock >>
              ELSE WriteSvg(SvgOf(p), text)
           /\ lastOp' = Op("convert", p, SvgOf(p), files[p], text # Falsy)
    /\ UNCHANGED extracted
    /\ UNCHANGED toolFrame

\* PDFToPNGConverter.generate_thumbnails(pdf, svg)
ToolThumbnails(p) ==
    /\ program = "tools"
    /\ files[p] # NoFile
    /\ svgs[SvgOf(p)] # Falsy
    /\ WriteSvg(SvgOf(p), generate_thumbnails(files[p], svgs[SvgOf(p)]))
    /\ lastOp' = Op("thumbs", p, SvgOf(p), files[p], TRUE)
    /\ UNCHANGED extracted
    /\ UNCHANGED toolFrame

\* ocr_processor.py <svg>: OCRProcessor.process_svg.  written: whether the
\* open(svg_path, 'w') of update_svg_with_ocr succeeds; when it raises,
\* update_svg_with_ocr logs the exception and returns, the file is as it
\* was, and process_svg goes on to return True
ToolOcr(s, written) ==
    /\ program = "tools"
    /\ svgs[s] # Falsy
    /\ LET r == process_svg(svgs[s], clock)
       IN  /\ IF r.text = svgs[s] \/ ~written
              THEN UNCHANGED << svgs, clock >>
              ELSE WriteSvg(s, r.text)
           /\ lastOp' = Op("ocr", None, s, NoFile, r.ret)
    /\ UNCHANGED extracted
    /\ UNCHANGED toolFrame

\* svg_operations.py extract_pdf <svg>: the decoded bytes go to the output file
ToolExtract(s) ==
    /\ program = "tools"
    /\ svgs[s] # Falsy
    /\ LET bs == extract_pdf_from_svg(svgs[s])
       IN  /\ extracted' = IF bs = DecodeError THEN extracted
                           ELSE [ extracted EXCEPT ![s] = bs ]
           /\ lastOp' = Op("extract", None, s, NoFile, bs # DecodeError)
    /\ UNCHANGED << svgs, clock >>
    /\ UNCHANGED toolFrame

\* svg_operations.py import_data <svg> <json>
ToolImport(s, d) ==
    /\ program = "tools"
    /\ svgs[s] # Falsy
    /\ WriteSvg(s, import_svg_data(svgs[s], d))
    /\ lastOp' = Op("import", None, s, NoFile, TRUE)
    /\ UNCHANGED extracted
    /\ UNCHANGED toolFrame

\* SVGOperations.update_svg_metadata(svg, new_metadata)
ToolUpdateMetadata(s, m) ==
    /\ program = "tools"
    /\ svgs[s] # Falsy
    /\ WriteSvg(s, update_svg_metadata(svgs[s], m))
    /\ lastOp' = Op("update", None, s, NoFile, TRUE)
    /\ UNCHANGED extracted
    /\ UNCHANGED toolFrame

NextTools ==
    \/ \E p \in Paths : ToolConvert(p)
    \/ \E p \in Paths : ToolThumbnails(p)
    \/ \E s \in SvgPaths, written \in BOOLEAN : ToolOcr(s, written)
    \/ \E s \in SvgPaths : ToolExtract(s)
    \/ \E s \in SvgPaths, d \in ImportBundles : ToolImport(s, d)
    \/ \E s \in SvgPaths, m \in MetadataUpdates : ToolUpdateMetadata(s, m)

SpecTools == InitTools /\ [][NextTools]_vars

\* svg_operations.py validate <svg>
ToolValidate(s) ==
    /\ program = "tools"
    /\ report' = validate_svg(svgs[s])
    /\ lastOp' = Op("validate", None, s, NoFile, validate_svg(svgs[s]).valid)
    /\ UNCHANGED << program, files, svgs, extracted, processed_files,
                    processing_files, events, clock, envCount, pc, cur,
                    svg_path, pdf_data, idx, ret_log, new_since_scan, mainVars,
                    lifeVars, buf, thumbs_ret, wait, inst >>

\* text without the tokens in toks
Without(text, toks) == SelectSeq(text, LAMBDA tok : tok \notin toks)

\* a container with nothing but the namespace, the three required fields,
\* the status and a payload
MinimalContainer ==
    << Markup.SvgOpen, Markup.NsDecl, Markup.SvgOpenEnd, Markup.MetaOpen, Markup.DocOpen,
       OpenTag.filename, "a.pdf", CloseTag.filename,
       OpenTag.creation_time, isoformat(0), CloseTag.creation_time,
       OpenTag.pages, "3", CloseTag.pages,
       OpenTag.ocr_status, "pending", CloseTag.ocr_status,
       Markup.DocClose, Markup.MetaClose, Markup.DefsOpen,
       Markup.PdfDataOpen, Markup.PdfUri >>
    \o pdf_to_base64(1)
    \o << Markup.PdfDataClose, Markup.DefsClose, Markup.SvgClose >>

\* the files validate is run on: a fresh container and one after OCR; the
\* fresh one with its status set to completed by hand, with and without
\* the ocr_data element; the fresh one less its namespace declaration, less
\* its pages field, and with a payload cut short; the minimal container;
\* a file that is no container; and a file that cannot be read
ValidateInputs ==
    LET fresh == convert("a.pdf", 1, 0)
        done  == update_svg_metadata(fresh, << << "ocr_status", << "completed" >> >> >>)
        uri   == FindTok(fresh, Markup.PdfUri, 1)
    IN  { fresh,
          process_svg(fresh, 1).text,
          done,
          Without(done, { OpenTag.ocr_data, CloseTag.ocr_data }),
          Without(fresh, { Markup.NsDecl }),
          Without(fresh, { OpenTag.pages, CloseTag.pages }),
          Slice(fresh, 1, uri + 1) \o Slice(fresh, uri + 3, Len(fresh)),
          MinimalContainer,
          << "not a container" >>,
          Unreadable }

InitValidate ==
    /\ program = "tools"
    /\ files = [ p \in Paths |-> NoFile ]
    /\ pc = [ t \in Threads |-> "done" ]
    /\ deps = TRUE
    /\ svgs \in [ SvgPaths -> ValidateInputs \cup { Falsy } ]
    /\ InitState

NextValidate == \E s \in SvgPaths : ToolValidate(s)

SpecValidate == InitValidate /\ [][NextValidate]_vars

(***************************************************************************)
(* The editing tools run on a container that was made by Convert, or made  *)
(* by Convert and then stripped of its ocr_data element by hand            *)
(***************************************************************************)
EditInputs ==
    { convert("a.pdf", 1, 0),
      Without(convert("a.pdf", 1, 0), { OpenTag.ocr_data, CloseTag.ocr_data }) }

InitEdit ==
    /\ program = "tools"
    /\ files = [ p \in Paths |-> IF p = "a.pdf" THEN 1 ELSE NoFile ]
    /\ pc = [ t \in Threads |-> "done" ]
    /\ deps = TRUE
    /\ svgs \in [ SvgPaths -> EditInputs \cup { Falsy } ]
    /\ InitState

SpecEdit ==
    /\ InitEdit
    /\ [][ \/ \E p \in Paths : ToolThumbnails(p)
           \/ \E s \in SvgPaths, written \in BOOLEAN : ToolOcr(s, written)
           \/ \E s \in SvgPaths, d \in ImportBundles : ToolImport(s, d) ]_vars

(***************************************************************************)
(* wait_for_file_complete, poll by poll, while another program writes the  *)
(* file                                                                    *)
(***************************************************************************)
\* os.path.getsize of a file with content c; -1 when it raises OSError
getsize(c) == IF c = NoFile THEN -1 ELSE Len(PdfTable[c].bytes)

\* one pass of the while loop that neither sleeps nor counts time when
\* getsize raises
poll_busy(w, size) ==
    LET seen == IF Len(w.polls) = 2 THEN << w.polls[2], size >>
                ELSE Append(w.polls, size)
    IN  IF size = -1
        THEN [ w EXCEPT !.polls = seen ]
        ELSE IF size = w.last_size /\ size > 0
        THEN [ elapsed |-> w.elapsed + SettleDelay, last_size |-> w.last_size,
               polls |-> seen, ret |-> "stable" ]
        ELSE [ elapsed |-> w.elapsed + 1, last_size |-> size,
               polls |-> seen, ret |-> "none" ]

\* one pass of the while loop of wait_for_file_complete, getsize having
\* given size: the settle sleep and the return, or the polling sleep
poll(w, size) ==
    LET seen == IF Len(w.polls) = 2 THEN << w.polls[2], size >>
                ELSE Append(w.polls, size)
    IN  IF size = -1
        THEN [ w EXCEPT !.elapsed = w.elapsed + 1, !.polls = seen ]
        ELSE IF size = w.last_size /\ size > 0
        THEN [ elapsed |-> w.elapsed + SettleDelay, last_size |-> w.last_size,
               polls |-> seen, ret |-> "stable" ]
        ELSE [ elapsed |-> w.elapsed + 1, last_size |-> size,
               polls |-> seen, ret |-> "none" ]

\* the observer thread inside wait_for_file_complete: the loop condition
\* fails (timeout, a warning is logged) or one pass is made; when the call
\* returns, process_pdf_file adds the path to processing_files and calls
\* process_pdf
Poll ==
    /\ program = "service"
    /\ pc["observer"] = "wait"
    /\ LET w == IF wait.elapsed >= WaitTimeout
                THEN [ wait EXCEPT !.ret = "timeout" ]
                ELSE poll(wait, getsize(files[cur["observer"]]))
       IN  /\ wait' = w
           /\ IF w.ret = "none"
              THEN UNCHANGED << pc, processing_files >>
              ELSE /\ pc' = [ pc EXCEPT !["observer"] = "convert" ]
                   /\ processing_files' = processing_files \cup { cur["observer"] }
    /\ UNCHANGED << program, files, svgs, extracted, processed_files, events,
                    clock, envCount, cur, svg_path, pdf_data, idx, ret_log,
                    new_since_scan, mainVars, lastOp, report, inst, thumbs_ret,
                    buf, lifeVars >>

\* what the file that is waited for may hold: 4 bytes, no byte, 5 bytes
WaitContents == { 1, 5, 8 }

\* another program writes the file that is waited for once more, or
\* removes it, or creates it again
Rewrite(c) ==
    /\ pc["observer"] = "wait"
    /\ files[cur["observer"]] # c
    /\ files' = [ files EXCEPT ![cur["observer"]] = c ]
    /\ UNCHANGED << program, svgs, extracted, processed_files, processing_files,
                    events, clock, envCount, pc, cur, svg_path, pdf_data, idx,
                    ret_log, new_since_scan, mainVars, lastOp, report, wait,
                    inst, thumbs_ret, buf, lifeVars >>

NextWait ==
    \/ \E p \in Paths, c \in WaitContents : CreateFile(p, c)
    \/ Dispatch
    \/ Poll
    \/ \E c \in WaitContents \cup { NoFile } : Rewrite(c)

\* the service started with its libraries installed
InitInstalled == InitService /\ deps

\* the observer thread of the service from a notification to the call of
\* process_pdf; the thread is scheduled and its sleeps end
SpecWait ==
    /\ InitInstalled
    /\ [][NextWait]_vars
    /\ WF_vars(Poll)

(***************************************************************************)
(* Several daemon processes started on one PID file: VeriDockDaemon.start  *)
(* up to the main loop, and its ways out.  inst.pc tells where each        *)
(* process is, inst.pid whose pid the PID file holds (None: no file).      *)
(***************************************************************************)
\* is_running(), the first statement of start(): with no PID file it
\* returns False; with the pid of a live process (one inside start()) it
\* returns True and start() returns False; with the pid of a process that
\* is gone it removes the file and returns False
CheckPid(d) ==
    /\ inst.pc[d] = "new"
    /\ IF inst.pid # None /\ inst.pc[inst.pid] \in { "create", "setup", "running" }
       THEN inst' = [ inst EXCEPT !.pc[d] = "refused" ]
       ELSE inst' = [ inst EXCEPT !.pc[d] = "create", !.pid = None ]

\* create_pid_file(): open(self.pid_file, 'w') and the pid written
CreatePid(d) ==
    /\ inst.pc[d] = "create"
    /\ inst' = [ inst EXCEPT !.pc[d] = "setup", !.pid = d ]

\* the try block of start() up to self.running = True: without watch
\* directories start() returns False; when scheduling or starting the
\* observer raises, cleanup() runs and start() returns False; else the
\* daemon is running
Setup(d, watch_directories, observer_starts) ==
    /\ inst.pc[d] = "setup"
    /\ inst' = IF ~watch_directories
               THEN [ inst EXCEPT !.pc[d] = "returned" ]
               ELSE IF ~observer_starts
               THEN [ inst EXCEPT !.pc[d] = "returned",
                                  !.pid = IF cleanup(TRUE) THEN inst.pid ELSE None ]
               ELSE [ inst EXCEPT !.pc[d] = "running" ]

\* main_loop ends (running was cleared by a signal, or an exception left
\* the loop): its finally clause runs cleanup(), start() returns
LoopEnds(d) ==
    /\ inst.pc[d] = "running"
    /\ inst' = [ inst EXCEPT !.pc[d] = "returned",
                             !.pid = IF cleanup(TRUE) THEN inst.pid ELSE None ]

\* what the steps of start() leave alone
startFrame ==
    << program, files, svgs, extracted, processed_files, processing_files,
       events, clock, envCount, pc, cur, svg_path, pdf_data, idx, ret_log,
       new_since_scan, mainVars, lastOp, report, wait, thumbs_ret, buf, lifeVars >>

NextStart ==
    \/ \E d \in Daemons : CheckPid(d) /\ UNCHANGED startFrame
    \/ \E d \in Daemons : CreatePid(d) /\ UNCHANGED startFrame
    \/ \E d \in Daemons, w, o \in BOOLEAN : Setup(d, w, o) /\ UNCHANGED startFrame
    \/ \E d \in Daemons : LoopEnds(d) /\ UNCHANGED startFrame

SpecStart == InitInstalled /\ [][NextStart]_vars

(***************************************************************************)
(* find_pdf_files over a directory that other programs change while it is  *)
(* walked                                                                  *)
(***************************************************************************)
\* find_pdf_files over one watched directory: os.walk has listed the files
\* in the given order, and fs is what open() finds when get_file_hash comes
\* to each of them.  open() of a file that is gone raises inside the try
\* that holds the whole walk of the directory, which ends the walk.
RECURSIVE find_pdf_files_walk(_, _, _)
find_pdf_files_walk(order, fs, processed) ==
    IF order = << >> THEN << >>
    ELSE IF fs[Head(order)] = NoFile THEN << >>
    ELSE IF get_file_hash(fs[Head(order)]) \notin processed
         THEN << Head(order) >> \o find_pdf_files_walk(Tail(order), fs, processed)
         ELSE find_pdf_files_walk(Tail(order), fs, processed)

\* the contents of the files in the directory that is scanned
ScanContents == { 1, 2 }

\* a directory with some files, some of them processed before
InitScan ==
    /\ program = "converter"
    /\ files \in [ Paths -> ScanContents \cup { NoFile } ]
    /\ pc = [ t \in Threads |-> IF t = "main" THEN "scan" ELSE "idle" ]
    /\ deps = TRUE
    /\ svgs = [ s \in SvgPaths |-> Falsy ]
    /\ extracted = [ s \in SvgPaths |-> DecodeError ]
    /\ processed_files \in SUBSET { get_file_hash(c) : c \in ScanContents }
    /\ processing_files = {} /\ events = << >> /\ clock = 0 /\ envCount = 0
    /\ cur = [ t \in Threads |-> None ]
    /\ svg_path = [ t \in Threads |-> None ]
    /\ pdf_data = [ t \in Threads |-> NoFile ]
    /\ pdf_files = << >> /\ scan_hash = << >> /\ idx = 1 /\ ret_log = << >>
    /\ svg_files = << >> /\ sidx = 1
    /\ new_since_scan = TRUE /\ clean_rescan = FALSE
    /\ lastOp = NoOp /\ report = NoReport /\ wait = WaitStart /\ inst = NoInst
    /\ thumbs_ret = [ t \in Threads |-> FALSE ]
    /\ buf = [ t \in Threads |-> Falsy ]
    /\ running = TRUE /\ in_stop = FALSE /\ pid_file = FALSE

\* pdf_files = self.find_pdf_files(): os.walk lists the files present in
\* some order; the files of gone are removed by another program after they
\* were listed and before get_file_hash opens them
WalkScan(order, gone) ==
    /\ pc["main"] = "scan"
    /\ files' = [ p \in Paths |-> IF p \in gone THEN NoFile ELSE files[p] ]
    /\ pdf_files' = find_pdf_files_walk(order, files', processed_files)
    /\ lastOp' = Op("scan", None, None, NoFile, TRUE)
    /\ pc' = [ pc EXCEPT !["main"] = "scanned" ]
    /\ UNCHANGED << program, svgs, extracted, processed_files, processing_files,
                    events, clock, envCount, cur, svg_path, pdf_data, scan_hash,
                    idx, ret_log, svg_files, sidx, new_since_scan, clean_rescan,
                    report, wait, inst, thumbs_ret, buf, lifeVars >>

SpecScan ==
    /\ InitScan
    /\ [][ \E order \in Orders({ p \in Paths : files[p] # NoFile }),
              gone \in SUBSET { p \in Paths : files[p] # NoFile } :
              WalkScan(order, gone) ]_vars

(***************************************************************************)
(* Properties                                                              *)
(***************************************************************************)
\* the step is taken by thread t inside process_pdf
Moves(t) == pc'[t] # pc[t] \/ cur'[t] # cur[t]

\* the step is a run of Convert by thread t on an existing source file
ConvertRuns(t) == pc[t] = "convert" /\ Moves(t) /\ files[cur[t]] # NoFile

\* the step is a run of find_pdf_files
ScanRuns == pc["main"] = "scan" /\ pc'["main"] # "scan"

\* process_pdf returned False for these members of pdf_files in the pass
\* that has just ended
FailedInPass == { pdf_files[i] : i \in { j \in DOMAIN ret_log : ~ret_log[j] } }

\* C1: a PDF whose fingerprint is already in the Processed Set is never run
\* through Convert again, on the event path or on the scan path: every
\* step that runs Convert reads a content whose fingerprint is not in
\* processed_files.
C1_AtMostOnce ==
    [][ \A t \in Threads :
            ConvertRuns(t) => get_file_hash(files[cur[t]]) \notin processed_files ]_vars

\* C2: in one scan-and-process pass over two files of identical content,
\* the second is neither converted nor deleted: once process_pdf has
\* returned True for a member of pdf_files, no step of process_pdf on a
\* later member listed with the same fingerprint writes a container or
\* removes a file.
C2_SecondDuplicateSkipped ==
    [][ ( /\ pc["main"] \in { "convert", "remove" }
          /\ Moves("main")
          /\ \E i \in 1..(idx - 1) : ret_log[i] /\ scan_hash[i] = scan_hash[idx] )
        => /\ svgs' = svgs
           /\ files' = files ]_vars

\* C3: find_pdf_files never returns a path whose file content has a
\* fingerprint that is in the Processed Set at the time of the scan.
C3_DiscoveryDropsProcessed ==
    [][ ScanRuns =>
          \A i \in DOMAIN pdf_files' :
              /\ files[pdf_files'[i]] # NoFile
              /\ get_file_hash(files[pdf_files'[i]]) \notin processed_files ]_vars

\* C3 witness: find_pdf_files has run, no file was written since, and its
\* list leaves out a file that is on disk, whose fingerprint is in the
\* Processed Set.
C3_Witness ==
    /\ pc["main"] # "scan"
    /\ ~new_since_scan
    /\ \E p \in Paths :
          /\ files[p] # NoFile
          /\ get_file_hash(files[p]) \in processed_files
          /\ \A i \in DOMAIN pdf_files : pdf_files[i] # p

StatusOf(text) == get_svg_metadata(text, "ocr_status")

\* number of per-page entries in the OCR bundle of a container text
PageEntries(text) == Cardinality({ i \in DOMAIN text : text[i] = Json.JPageNo })

\* the OCR bundle of a container text is present and non-empty
HasOcrBundle(text) ==
    /\ re_search_lazy(text, OpenTag.ocr_data, CloseTag.ocr_data).found
    /\ re_search_lazy(text, OpenTag.ocr_data, CloseTag.ocr_data).group # << >>

\* C5: extracting the payload from the container Convert has just built
\* from a source PDF yields exactly the bytes of that PDF.
C5_PayloadRoundTrip ==
    [][ ( /\ lastOp.op = "convert" /\ lastOp.ok
          /\ lastOp'.op = "extract" /\ lastOp'.svg = lastOp.svg )
        => /\ lastOp'.ok
           /\ extracted'[lastOp.svg] = PdfTable[lastOp.content].bytes ]_vars

\* C6: process_svg run on a container directly after process_svg on the
\* same container leaves the container text as the first run left it.
C6_OcrIdempotent ==
    [][ (lastOp'.op = "ocr" /\ lastOp.op = "ocr" /\ lastOp'.svg = lastOp.svg)
        => svgs'[lastOp.svg] = svgs[lastOp.svg] ]_vars

\* C7: when one 3-page PDF is dropped into the root of run_daemon, there is
\* exactly one container; right after Convert and Thumbnail it has pages=3
\* and ocr_status=pending; once the next OCR sweep has handled it, it has
\* ocr_status=completed and exactly 3 per-page OCR entries.
C7_ThreePageScenario ==
    ( /\ program = "converter"
      /\ envCount = 1
      /\ svg_path["main"] # None
      /\ pdf_data["main"] # NoFile
      /\ PdfTable[pdf_data["main"]].pages = 3 )
    => LET s == svg_path["main"]
       IN  /\ pc["main"] = "hash" =>
                 /\ ListSvg = { s }
                 /\ get_svg_metadata(svgs[s], "pages") = << "3" >>
                 /\ StatusOf(svgs[s]) = << "pending" >>
           /\ (pc["main"] = "ocr" /\ sidx > Len(svg_files) /\ svg_files = << s >>) =>
                 /\ ListSvg = { s }
                 /\ get_svg_metadata(svgs[s], "pages") = << "3" >>
                 /\ StatusOf(svgs[s]) = << "completed" >>
                 /\ PageEntries(svgs[s]) = 3

\* C8: in every container reachable by Convert, Thumbnail, OCR,
\* import_svg_data and update_svg_metadata, ocr_status = completed implies
\* that the ocr_data element is present and non-empty.
C8_CompletedHasBundle ==
    \A s \in SvgPaths :
        (svgs[s] # Falsy /\ StatusOf(svgs[s]) = << "completed" >>)
            => HasOcrBundle(svgs[s])

\* C9: a source file is removed only by the remove step of a process_pdf
\* call whose Convert returned the container path of that file, with the
\* container written; a Convert that fails removes nothing and its
\* process_pdf call ends there.
C9_DeleteOnlyAfterContainer ==
    [][ /\ \A p \in Paths :
              (files[p] # NoFile /\ files'[p] = NoFile) =>
                  \E t \in Threads :
                      /\ pc[t] = "remove" /\ cur[t] = p /\ Moves(t)
                      /\ svg_path[t] = SvgOf(p)
                      /\ svgs[SvgOf(p)] # Falsy
        /\ \A t \in Threads :
              ( /\ pc[t] = "convert" /\ Moves(t)
                /\ convert(cur[t], files[cur[t]], clock) = Falsy )
              => /\ files' = files
                 /\ pc'[t] \notin { "thumbs", "hash", "remove" } ]_vars

\* C9 witness: process_pdf has returned True for a listed file; the file is
\* gone and its container is there.
C9_Witness ==
    \E i \in DOMAIN ret_log :
        /\ ret_log[i]
        /\ files[pdf_files[i]] = NoFile
        /\ svgs[SvgOf(pdf_files[i])] # Falsy

\* C10: a fingerprint enters processed_files only in a process_pdf call
\* whose Convert succeeded on a file with that content, and processed_files
\* never loses a member.
C10_FingerprintOfConverted ==
    [][ /\ processed_files \subseteq processed_files'
        /\ \A h \in processed_files' \ processed_files :
              \E t \in Threads :
                  /\ pc[t] = "hash" /\ Moves(t)
                  /\ svg_path[t] # None
                  /\ h = get_file_hash(pdf_data[t]) ]_vars

\* the steps of process_pdf
Pipeline == { "convert", "thumbs", "hash", "remove" }

\* C11: under every interleaving of the observer thread and the scanning
\* thread, the same path is never inside process_pdf in both threads at
\* the same time (the two paths consult one guard keyed by path).
C11_OnePipelinePerPath ==
    ~ ( /\ pc["main"] \in Pipeline
        /\ pc["observer"] \in Pipeline
        /\ cur["main"] = cur["observer"] )

\* C13: while the handler waits for or processes file A, a notification
\* for a different file B that has been delivered can be taken up: its
\* handling can begin before the work on A has finished.
C13_NotificationsNotBlocked ==
    ( /\ pc["observer"] \in { "wait" } \cup Pipeline
      /\ running
      /\ events # << >>
      /\ Head(events) # cur["observer"] )
    => ENABLED Dispatch

\* C12: the Thumbnail stage of a notification, between its read and its
\* write of a container (update_svg_thumbnails), never overlaps the OCR
\* stage of the sweep between its read and its write of the same container
\* (update_svg_with_ocr).
C12_EnrichmentExclusive ==
    ~ ( /\ pc["observer"] = "thumbs_write"
        /\ pc["main"] = "ocr_write"
        /\ svg_path["observer"] = svg_files[sidx] )

\* base64-encoding or rasterization of a source with content c fails in
\* Convert
ConvertFails(c) ==
    pdf_to_base64(c) = Falsy \/ convert_from_path(c, SvgDpi) = << >>

\* C18: when base64-encoding or rasterization of the source fails, the
\* Convert step of process_pdf writes nothing to any container, leaves
\* the source file as it is, and process_pdf returns False there without
\* entering the Thumbnail, fingerprint or remove step.
C18_ConvertAllOrNothing ==
    [][ \A t \in Threads :
           ( /\ pc[t] = "convert" /\ Moves(t)
             /\ files[cur[t]] # NoFile
             /\ ConvertFails(files[cur[t]]) )
           => /\ svgs' = svgs
              /\ files' = files
              /\ processed_files' = processed_files
              /\ pc'[t] \notin { "thumbs", "hash", "remove" }
              /\ t = "main" => ret_log' = Append(ret_log, FALSE) ]_vars

\* C18 witness: process_pdf has returned False for a listed source whose
\* rasterization fails; the source is still there and no container of its
\* name exists.
C18_Witness ==
    \E i \in DOMAIN ret_log :
        /\ ~ret_log[i]
        /\ files[pdf_files[i]] # NoFile
        /\ ConvertFails(files[pdf_files[i]])
        /\ svgs[SvgOf(pdf_files[i])] = Falsy

\* C15: a sweep lists every container that exists under the watched root,
\* whichever thread wrote it; each step of the sweep runs process_svg on
\* the next listed container and moves on to the one after it whether
\* process_svg returned True or False; and the sweep ends only after the
\* last listed container.
C15_SweepReachesAll ==
    [][ /\ (pc["main"] # "ocr" /\ pc'["main"] = "ocr")
            => /\ sidx' = 1
               /\ Range(svg_files') = { s \in SvgPaths : svgs[s] # Falsy }
               /\ Len(svg_files') = Cardinality(Range(svg_files'))
        /\ (pc["main"] = "ocr" /\ pc'["main"] = "ocr" /\ sidx <= Len(svg_files))
            => /\ svg_files' = svg_files
               /\ sidx' \in { sidx, sidx + 1 }
               /\ sidx' = sidx + 1
                    => svgs'[svg_files[sidx]]
                         = process_svg(svgs[svg_files[sidx]], clock).text
        /\ (pc["main"] = "ocr" /\ pc'["main"] # "ocr")
            => sidx > Len(svg_files) ]_vars

\* C15 witness: the sweep stands at a listed container after process_svg
\* has failed on an earlier one of the same listing.
C15_Witness ==
    /\ pc["main"] = "ocr"
    /\ sidx <= Len(svg_files)
    /\ \E i \in 1..(sidx - 1) :
          /\ svgs[svg_files[i]] # Falsy
          /\ ~process_svg(svgs[svg_files[i]], clock).ret

\* C19: when the Thumbnail stage of a process_pdf call has aborted
\* (generate_thumbnails returned False), the call does not add the
\* fingerprint of the source to processed_files.
C19_NoFingerprintAfterAbort ==
    [][ \A t \in Threads :
           (pc[t] = "hash" /\ Moves(t) /\ ~thumbs_ret[t])
           => processed_files' = processed_files ]_vars

\* the OCR stage begins for the next container of the sweep
OcrRuns ==
    /\ pc["main"] = "ocr"
    /\ sidx <= Len(svg_files)
    /\ (sidx' = sidx + 1 \/ pc'["main"] = "ocr_write")

\* C16: once stop() has been invoked (running is False), no Convert and no
\* OCR stage begins in the main thread, the remaining items of a scan or
\* of a sweep in progress included, and the observer takes no notification
\* from its queue.
C16_NoNewWorkAfterStop ==
    [][ ~running =>
            /\ ~ (deps /\ ConvertRuns("main"))
            /\ ~ OcrRuns
            /\ ~ (pc["observer"] = "idle" /\ pc'["observer"] = "wait") ]_vars

\* C17: when the service has exited through main_loop (running cleared by
\* a signal, or an exception leaving the loop), and as soon as stop() has
\* returned, the PID file created at start is gone.
C17_PidFileReleased ==
    /\ pc["main"] = "exited" => ~pid_file
    /\ (~running /\ ~in_stop) => ~pid_file

\* C17 witness: the service has exited after a signal.
C17_Witness ==
    /\ pc["main"] = "exited"
    /\ ~running
    /\ ~pid_file

\* C20: as long as no shutdown was requested, no failure of a stage ends
\* a scheduler thread: the main thread has not left start() and the
\* observer thread is alive.
C20_SchedulerSurvives ==
    running => ( /\ pc["main"] \notin { "aborted", "exited" }
                 /\ pc["observer"] # "dead" )

\* C21: when a dependency is missing (deps is false: pdf2image or
\* pytesseract cannot be imported), the service refuses to start, that is
\* its main thread never stands in main_loop or in a sweep.
C21_DependencyFatalAtStartup ==
    ~deps => pc["main"] \notin { "main_loop", "ocr", "ocr_write" }

\* the keys of a dict given to update_svg_metadata
KeysOf(new_metadata) == { new_metadata[i][1] : i \in DOMAIN new_metadata }

\* the fields of text that an edit meant for other fields must leave alone
SameFields(text, after, keys) ==
    /\ \A k \in keys : get_svg_metadata(after, k) = get_svg_metadata(text, k)
    /\ extract_pdf_from_svg(after) = extract_pdf_from_svg(text)

\* C22: for every container and every update (update_svg_metadata with a
\* dict, import_svg_data with a bundle, generate_thumbnails for a source),
\* applying the update to the updated text gives the updated text again,
\* and the fields the update is not aimed at, and the payload, read the
\* same after the update as before it.
C22_UpdateIdempotentLocal ==
    \A s \in SvgPaths :
        svgs[s] # Falsy =>
            /\ \A m \in MetadataUpdates :
                  LET once == update_svg_metadata(svgs[s], m)
                  IN  /\ update_svg_metadata(once, m) = once
                      /\ SameFields(svgs[s], once, UpdatableKeys \ KeysOf(m))
            /\ \A d \in ImportBundles :
                  LET once == import_svg_data(svgs[s], d)
                  IN  /\ import_svg_data(once, d) = once
                      /\ SameFields(svgs[s], once, UpdatableKeys \ { "ocr_status" })
            /\ \A c \in Contents :
                  LET once == generate_thumbnails(c, svgs[s])
                  IN  /\ generate_thumbnails(c, once) = once
                      /\ SameFields(svgs[s], once, UpdatableKeys)

\* C23: a stage run on a document for which its postcondition already
\* holds succeeds and leaves the container as it is: Convert when the
\* container already embeds the bytes of the source, Thumbnail when the
\* container already has its thumbnail metadata, OCR when the container
\* already has ocr_status completed.
C23_StagesReentrant ==
    [][ /\ ( /\ lastOp'.op = "convert"
              /\ lastOp'.content # NoFile
              /\ svgs[lastOp'.svg] # Falsy
              /\ extract_pdf_from_svg(svgs[lastOp'.svg])
                    = PdfTable[lastOp'.content].bytes )
            => (lastOp'.ok /\ svgs' = svgs)
        /\ ( /\ lastOp'.op = "thumbs"
              /\ Contains(svgs[lastOp'.svg], OpenTag.thumbnail_metadata) )
            => (lastOp'.ok /\ svgs' = svgs)
        /\ ( /\ lastOp'.op = "ocr"
              /\ StatusOf(svgs[lastOp'.svg]) = << "completed" >> )
            => (lastOp'.ok /\ svgs' = svgs) ]_vars

\* the container text has the namespace declaration, the document section,
\* non-empty filename, creation_time and pages, a decodable payload in its
\* pdf_data element, and ocr_status pending
Minimal(text) ==
    /\ text \notin { Falsy, Unreadable }
    /\ Contains(text, Markup.NsDecl)
    /\ Contains(text, Markup.DocOpen)
    /\ Contains(text, Markup.PdfDataOpen)
    /\ \A k \in { "filename", "creation_time", "pages" } :
          get_svg_metadata(text, k) # << >>
    /\ extract_pdf_from_svg(text) # DecodeError
    /\ StatusOf(text) = << "pending" >>

\* C24: validate_svg reports a file without the namespace declaration as
\* not valid, and reports a minimal container (see Minimal) as valid.
C24_ValidateNamespaceAndMinimal ==
    lastOp.op = "validate" =>
        /\ ~Contains(svgs[lastOp.svg], Markup.NsDecl) => ~report.valid
        /\ Minimal(svgs[lastOp.svg]) => report.valid

\* C24 witness: validate_svg has accepted the container that has nothing
\* beyond the minimum.
C24_Witness ==
    /\ lastOp.op = "validate"
    /\ svgs[lastOp.svg] = MinimalContainer
    /\ report.valid

\* C25: when validate_svg is run on a container whose ocr_status is
\* completed and whose ocr_data element is missing or empty, its report
\* has the message about the missing OCR data among its errors or its
\* warnings.
C25_ValidateStatusBundlePairing ==
    ( /\ lastOp.op = "validate"
      /\ svgs[lastOp.svg] \notin { Falsy, Unreadable }
      /\ StatusOf(svgs[lastOp.svg]) = << "completed" >>
      /\ ~HasOcrBundle(svgs[lastOp.svg]) )
    => Msg.NoOcr \in Range(report.errors) \cup Range(report.warnings)

\* C26: for every file validate_svg is run on, missing, unreadable,
\* malformed or with an undecodable payload, it returns a report with a
\* list of errors and a list of warnings, and the report is valid exactly
\* when the list of errors is empty.
C26_ValidateReportStructured ==
    lastOp.op = "validate" =>
        /\ DOMAIN report = { "valid", "errors", "warnings" }
        /\ report.valid \in BOOLEAN
        /\ DOMAIN report.errors = 1..Len(report.errors)
        /\ DOMAIN report.warnings = 1..Len(report.warnings)
        /\ report.valid <=> report.errors = << >>

\* C26 witness: validate_svg has returned its report for a file that
\* cannot be read.
C26_Witness ==
    /\ lastOp.op = "validate"
    /\ svgs[lastOp.svg] = Unreadable
    /\ ~report.valid
    /\ report.errors # << >>

\* C27: every word entry that process_image_ocr returns for a page has a
\* confidence above 30, and so has every word entry of every OCR bundle
\* written into a container.
C27_RetainedWordsConfident ==
    /\ \A c \in Contents : \A i \in 1..PdfTable[c].pages :
          \A k \in DOMAIN process_image_ocr(c, i, clock).words :
              process_image_ocr(c, i, clock).words[k].conf > 30
    /\ \A s \in SvgPaths : \A i \in DOMAIN svgs[s] :
          svgs[s][i] = Json.JWordConf
              => svgs[s][i + 1] \in { ToString(n) : n \in 31..100 }

\* C27 witness: a container holds the OCR bundle of a page on which a box
\* of confidence 30 was recognized next to one of confidence 31; the entry
\* of confidence 31 is in the bundle.
C27_Witness ==
    \E s \in SvgPaths : \E i \in DOMAIN svgs[s] :
        /\ svgs[s][i] = Json.JWordConf
        /\ svgs[s][i + 1] = "31"
        /\ \E k \in DOMAIN OcrRaw(1, 1).words :
              OcrRaw(1, 1).words[k].conf = 30 /\ OcrRaw(1, 1).words[k].text # ""

\* the entries of page_positions that json_dumps_matrix writes for a grid
\* of n pages with a tile at ((i mod 4) * TileW, (i div 4) * TileH) for
\* each 0-based page index i
TilesExpected(n) ==
    Flatten([ k \in 1..n |->
                << Json.JThPage, ToString(k),
                   Json.JThX, ToString(((k - 1) % 4) * TileW),
                   Json.JThY, ToString(((k - 1) \div 4) * TileH), Json.JThWH >> ])

\* C28: for every source of N >= 1 pages, create_thumbnail_matrix records
\* cols = min(4, N), rows = ceil(N / cols) and, for every 0-based page
\* index i, the tile of page i + 1 at ((i mod 4) * TileW, (i div 4) * TileH);
\* and the thumbnail metadata a Thumbnail run writes into the container
\* lists exactly these tiles.
C28_TilePlacement ==
    /\ \A c \in Contents :
          create_thumbnail_matrix(c) # Falsy =>
              LET md == create_thumbnail_matrix(c)[1].metadata
                  n  == PdfTable[c].pages
              IN  /\ n >= 1
                  /\ md.total_pages = n
                  /\ md.matrix_cols = IF n < 4 THEN n ELSE 4
                  /\ md.matrix_rows * md.matrix_cols >= n
                  /\ (md.matrix_rows - 1) * md.matrix_cols < n
                  /\ \A i \in 0..(n - 1) :
                        /\ md.page_positions[i + 1].page = i + 1
                        /\ md.page_positions[i + 1].x = (i % 4) * TileW
                        /\ md.page_positions[i + 1].y = (i \div 4) * TileH
    /\ (lastOp.op = "thumbs" /\ create_thumbnail_matrix(lastOp.content) # Falsy)
          => LET text  == svgs[lastOp.svg]
                 n     == PdfTable[lastOp.content].pages
                 first == FindTok(text, Json.JThPage, 1)
             IN  /\ first > 0
                 /\ Slice(text, first, first + Len(TilesExpected(n)) - 1) = TilesExpected(n)

\* C28 witness: a Thumbnail run has written the grid of a source with more
\* than four pages, so that the grid has a second row.
C28_Witness ==
    /\ lastOp.op = "thumbs"
    /\ PdfTable[lastOp.content].pages > 4
    /\ Contains(svgs[lastOp.svg], Json.JThPage)

\* C29: the pages field of the container Convert has just written equals
\* the number of page images the rasterizer produces for the embedded PDF.
C29_PagesMatchRasterizer ==
    (lastOp.op = "convert" /\ lastOp.ok)
    => get_svg_metadata(svgs[lastOp.svg], "pages")
         = << ToString(Len(convert_from_path(
                  ContentOfBytes(extract_pdf_from_svg(svgs[lastOp.svg])), SvgDpi))) >>

\* the text between the tags of a bundle element, as export_svg_data reads it
BundleOf(text, key) == re_search_lazy(text, OpenTag[key], CloseTag[key]).group

\* C30: for every container and every bundle, import_svg_data with a bundle
\* that has ocr_data leaves the supplied data in the ocr_data element and
\* ocr_status completed; with a bundle that has no ocr_data it leaves
\* ocr_status and ocr_data as they were; and the thumbnail_metadata element
\* holds the supplied thumbnail metadata whenever the bundle has any,
\* whether or not ocr_data is there.
C30_ImportEffect ==
    \A s \in SvgPaths :
        svgs[s] # Falsy =>
            \A d \in ImportBundles :
                LET after == import_svg_data(svgs[s], d)
                IN  /\ d.has_ocr =>
                          /\ BundleOf(after, "ocr_data") = d.ocr_json
                          /\ StatusOf(after) = << "completed" >>
                    /\ ~d.has_ocr =>
                          /\ BundleOf(after, "ocr_data") = BundleOf(svgs[s], "ocr_data")
                          /\ StatusOf(after) = StatusOf(svgs[s])
                    /\ d.has_thumb =>
                          BundleOf(after, "thumbnail_metadata") = d.thumb_json

\* a source that Convert can turn into a container and whose fingerprint
\* is not yet processed lies at p
Candidate(p) ==
    /\ files[p] # NoFile
    /\ convert(p, files[p], clock) # Falsy
    /\ get_file_hash(files[p]) \notin processed_files

\* no notification is queued or being handled and there is no container
\* for the sweep to work on
Quiet == events = << >> /\ pc["observer"] = "idle" /\ ListSvg = {}

\* C14: while the service is running in its main loop, a candidate that
\* lies under the watched root with no notification for it is eventually
\* taken up by the scanning thread, unless it is gone or a duplicate by
\* then, a notification arrives, a container appears, or shutdown begins.
C14_RescanFindsUnnotified ==
    \A p \in Paths :
        ( /\ pc["main"] = "main_loop" /\ running /\ deps
          /\ Candidate(p) /\ Quiet )
        ~> ( \/ cur["main"] = p
             \/ ~Candidate(p)
             \/ ~Quiet
             \/ ~running )

\* C31: when find_pdf_files has returned, its list holds every file under
\* the root whose fingerprint is not in processed_files, none of them
\* twice, and nothing else; a file that disappeared during the scan is
\* left out, and the others are still returned.
C31_ScanComplete ==
    pc["main"] = "scanned" =>
        /\ \A p \in Paths :
              (files[p] # NoFile /\ get_file_hash(files[p]) \notin processed_files)
                  <=> p \in Range(pdf_files)
        /\ \A i, j \in DOMAIN pdf_files : pdf_files[i] = pdf_files[j] => i = j

\* C32: wait_for_file_complete never counts more than its timeout and the
\* settle delay, and whatever happens to the file (its size keeps
\* changing, stays zero, the file is gone) a call that has started
\* returns, after which process_pdf_file has put the path into
\* processing_files and called process_pdf.
C32_WaitTerminates ==
    /\ [](wait.elapsed <= WaitTimeout + SettleDelay)
    /\ (pc["observer"] = "wait")
          ~> (pc["observer"] = "convert" /\ cur["observer"] \in processing_files)

\* C32 witness: the call has returned by timeout for a file that was
\* absent at the last poll, and process_pdf has been called.
C32_Witness ==
    /\ wait.ret = "timeout"
    /\ wait.elapsed >= WaitTimeout
    /\ wait.polls[2] = -1
    /\ pc["observer"] = "convert"
    /\ cur["observer"] \in processing_files

\* C33: wait_for_file_complete ends as stable only when its last two
\* polls both read the size, read the same size, and that size is not
\* zero; it has then slept the settle delay; and the observer thread
\* enters process_pdf only when wait_for_file_complete has returned.
C33_StableAfterTwoEqualPolls ==
    [][ /\ (wait'.ret = "stable" /\ wait.ret = "none") =>
              /\ Len(wait'.polls) = 2
              /\ wait'.polls[1] = wait'.polls[2]
              /\ wait'.polls[2] > 0
              /\ wait'.elapsed = wait.elapsed + SettleDelay
        /\ (pc'["observer"] = "convert" /\ pc["observer"] # "convert") =>
              wait'.ret \in { "stable", "timeout" } ]_vars

\* C34: no step of the service, the death of the process inside the OCR
\* stage included, leaves a container that was on disk in another state
\* than these two: ocr_status completed with the ocr_data element and its
\* summary written in full, or ocr_status pending.
C34_StatusFlipsLast ==
    [][ \A s \in SvgPaths :
            svgs[s] # Falsy =>
                \/ /\ StatusOf(svgs'[s]) = << "completed" >>
                   /\ HasOcrBundle(svgs'[s])
                   /\ Contains(BundleOf(svgs'[s], "ocr_data"), Json.JSumLang)
                \/ StatusOf(svgs'[s]) = << "pending" >> ]_vars

\* after has one element of key k, it holds content, and it sits right
\* before the closing marker of the document block: nothing but the line
\* break and, when the same update inserted a second element behind it,
\* that element lie between the two
InsertedOnce(after, k, content) ==
    LET i     == FindTok(after, CloseTag[k], 1)
        close == FindTok(after, Markup.DocClose, 1)
    IN  /\ Count(after, OpenTag[k]) = 1
        /\ Count(after, CloseTag[k]) = 1
        /\ BundleOf(after, k) = content
        /\ i < close
        /\ after[i + 1] = Markup.WsNl4
        /\ \/ close = i + 2
           \/ /\ after[i + 2] = Markup.Ws6
              /\ after[i + 3] \in { OpenTag[j] : j \in { "ocr_data", "thumbnail_metadata" } \ { k } }
              /\ after[close - 1] = Markup.WsNl4
              /\ after[close - 2] \in { CloseTag[j] : j \in { "ocr_data", "thumbnail_metadata" } \ { k } }

C36_TilesPartitionGrid ==
    /\ \A c \in Contents :
          create_thumbnail_matrix(c) # Falsy =>
              LET md  == create_thumbnail_matrix(c)[1].metadata
                  pos == md.page_positions
                  n   == Len(convert_from_path(c, PngDpi))
              IN  /\ DOMAIN pos = 1..n
                  /\ \A k \in 1..n :
                        /\ pos[k].page = k
                        /\ pos[k].x >= 0 /\ pos[k].y >= 0
                        /\ pos[k].x + pos[k].width <= md.matrix_cols * TileW
                        /\ pos[k].y + pos[k].height <= md.matrix_rows * TileH
                  /\ \A j, k \in 1..n :
                        j # k =>
                            \/ pos[j].x + pos[j].width <= pos[k].x
                            \/ pos[k].x + pos[k].width <= pos[j].x
                            \/ pos[j].y + pos[j].height <= pos[k].y
                            \/ pos[k].y + pos[k].height <= pos[j].y
    /\ (lastOp.op = "thumbs" /\ create_thumbnail_matrix(lastOp.content) # Falsy)
          => LET text == svgs[lastOp.svg]
                 n    == Len(convert_from_path(lastOp.content, PngDpi))
                 at   == { i \in DOMAIN text : text[i] = Json.JThPage }
             IN  /\ Cardinality(at) = n
                 /\ \A i \in at :
                       text[i + 1] = ToString(Cardinality({ j \in at : j <= i }))

\* C36 witness: a Thumbnail run has written six tile entries, the grid of
\* a six-page source, into a container.
C36_Witness ==
    /\ lastOp.op = "thumbs"
    /\ Len(convert_from_path(lastOp.content, PngDpi)) = 6
    /\ Count(svgs[lastOp.svg], Json.JThPage) = 6
    /\ create_thumbnail_matrix(lastOp.content)[1].metadata.matrix_rows = 2

\* C37: no step of the pipeline removes a container or replaces what it
\* holds: a container on disk is still there after the step, with the same
\* embedded payload, and with the same OCR bundle once it has one.
C37_ContainerNeverReplaced ==
    [][ \A s \in SvgPaths :
            svgs[s] # Falsy =>
                /\ svgs'[s] # Falsy
                /\ extract_pdf_from_svg(svgs'[s]) = extract_pdf_from_svg(svgs[s])
                /\ HasOcrBundle(svgs[s]) =>
                      BundleOf(svgs'[s], "ocr_data") = BundleOf(svgs[s], "ocr_data") ]_vars

\* C38: of the daemons started on one PID file, at most one is running
\* (past self.running = True and not yet out of its main loop) at any time.
C38_SingleInstance ==
    \A d, e \in Daemons :
        (inst.pc[d] = "running" /\ inst.pc[e] = "running") => d = e

\* C39: when start() of a daemon has returned after create_pid_file, the
\* PID file that daemon wrote is gone.
C39_PidFileGoneOnReturn ==
    \A d \in Daemons : inst.pc[d] = "returned" => inst.pid # d

\* C40: whenever process_svg has returned True for a container, the
\* container on disk has ocr_status completed and holds an OCR bundle; in
\* particular it does not return True when the write of the result failed.
C40_OcrSuccessMeansDone ==
    (lastOp.op = "ocr" /\ lastOp.ok)
        => /\ StatusOf(svgs[lastOp.svg]) = << "completed" >>
           /\ HasOcrBundle(svgs[lastOp.svg])

====
